---- MODULE Spec2Model ----
(***************************************************************************)
(* A model of memtools (memtools.h): the pattern matcher, the region walk  *)
(* of PatternScan::Scan with its post-match instruction interpreter,       *)
(* FallbackScan::Scan and the Patch constructor / destructor.              *)
(*                                                                         *)
(* Addresses are scaled down to AddrBits bits; bytes keep their 8 bits.    *)
(* The address space is NumPages pages of PageSize bytes above the null    *)
(* page (page 0, never committed); VirtualQuery fails from MemEnd on.      *)
(***************************************************************************)
EXTENDS Integers, Sequences, FiniteSets, TLC

VARIABLES
    mem,                \* address -> byte: the memory image
    pageKind,           \* page -> [State, Protect]
    Assembly,           \* PatternScan::Assembly, the tokens Bytes[0 .. Size-1]
    Instructions,       \* PatternScan::Instructions[0 .. Count-1]
    modInfo,            \* DataScan: the MODULEINFO of the main module (lpBaseOfDll, SizeOfImage)
    pc,                 \* position inside Scan: while / for / instr / done / crash
    addr,               \* the query address of the region walk
    mbi,                \* the MEMORY_BASIC_INFORMATION of the last VirtualQuery
    base, end, i,       \* the byte loop of the accepted region
    resultAddr,         \* the cursor, and the value Scan returns
    instructionsFailed,
    addrStore,          \* the address stack of the current attempt
    offsetFromMatch,    \* offset tracker used by AdvWcard
    ip,                 \* index of the next instruction of the attempt (1-based)
    tested,             \* history: addresses the matcher was applied to
    scanned,            \* history: base addresses of the regions whose byte loop was entered
    attempts,           \* history: the finished verification attempts
    opLog,              \* history: the instructions executed in the current attempt
    pureIn, pureOut,    \* the arguments and the result of a function applied on its own
    Scans,              \* FallbackScan::Scans, each entry an [Assembly, Instructions]
    scanIdx,            \* FallbackScan::Scan: index of the scan of the range-for (1-based)
    fbPc,               \* position inside FallbackScan::Scan: none / loop / call / done
    fbResult,           \* the value FallbackScan::Scan returns
    fbLog,              \* history: the scans run by FallbackScan::Scan and their results
    patchArgs,          \* the arguments aTarget, aBytes of the Patch constructor
    Target,             \* Patch::Target
    OriginalBytes,      \* Patch::OriginalBytes, << >> for nullptr
    PatchSize,          \* Patch::Size
    patchPc,            \* life of the Patch: none / new / thrown / live / released / crash
    patchObjects,       \* number of live Patch objects holding these members
    patchers,           \* the threads that construct and destroy a Patch each
    patchHist,          \* history: memory and layout before apply, bytes captured,
                        \*          bytes written back, the message thrown
    s_PatternMatchStore,  \* the cache: a vector of [Pattern, Address]
    s_PatternMatchMutex,  \* 0 when free, else the thread that holds it
    threads,            \* thread -> the locals of its Scan call with caching
    firstWriter         \* history: per pattern, the first pass through the insert block

scanVars == << mem, pageKind, Assembly, Instructions, modInfo, pc, addr, mbi, base, end, i,
               resultAddr, instructionsFailed, addrStore, offsetFromMatch, ip,
               tested, scanned, attempts, opLog >>

pureVars == << pureIn, pureOut >>

fallbackVars == << Scans, scanIdx, fbPc, fbResult, fbLog >>

patchVars == << patchArgs, Target, OriginalBytes, PatchSize, patchPc, patchObjects,
               patchers, patchHist >>

cacheVars == << s_PatternMatchStore, s_PatternMatchMutex, threads, firstWriter >>

otherVars == << pureVars, fallbackVars, patchVars, cacheVars >>

vars == << scanVars, pureVars, fallbackVars, patchVars, cacheVars >>

-----------------------------------------------------------------------------
(* Bounds of the model *)

NumPages == 2
PageSize == 2
AddrBits == 4
MaxMarks == 1

AddrSpace == 2 ^ AddrBits
MemEnd    == (NumPages + 1) * PageSize
Addrs     == 0 .. (AddrSpace - 1)
Mapped    == 0 .. (MemEnd - 1)
Pages     == 0 .. NumPages
NULL      == 0

(* Pointer arithmetic wraps at the width of an address. *)
Wrap(a) == a % AddrSpace

-----------------------------------------------------------------------------
(* Host constants (windows.h) the code compares against *)

MEM_COMMIT             == 4096
PAGE_READONLY          == 2
PAGE_READWRITE         == 4
PAGE_EXECUTE_READ      == 32
PAGE_EXECUTE_READWRITE == 64

MAX_PATTERN_LENGTH     == 128
MAX_INSTRUCTION_LENGTH == 16

(* The scan is not the module-bounded one: no MODULEINFO is read. *)
NoModule == [lpBaseOfDll |-> NULL, SizeOfImage |-> 0]

Kind(s, p) == [State |-> s, Protect |-> p]
FreePage   == Kind(65536, 1)         \* MEM_FREE, PAGE_NOACCESS
KindER     == Kind(MEM_COMMIT, PAGE_EXECUTE_READ)
KindERW    == Kind(MEM_COMMIT, PAGE_EXECUTE_READWRITE)
KindRO     == Kind(MEM_COMMIT, PAGE_READONLY)
KindRES    == Kind(8192, 0)          \* MEM_RESERVE, no protection

(* A read of address a succeeds iff its page is committed and readable. *)
ReadableKind(k) ==
    /\ k.State = MEM_COMMIT
    /\ k.Protect \in {PAGE_READONLY, PAGE_READWRITE, PAGE_EXECUTE_READ, PAGE_EXECUTE_READWRITE}

Readable(pk, a) == a \in Mapped /\ ReadableKind(pk[a \div PageSize])

RangeReadable(pk, a, n) == \A k \in 0 .. (n - 1) : Readable(pk, Wrap(a + k))

-----------------------------------------------------------------------------
(* VirtualQuery: the region of the page holding a, from that page forward *)

RECURSIVE RunEnd(_, _)
RunEnd(pk, p) ==
    IF p + 1 \in Pages /\ pk[p + 1] = pk[p] THEN RunEnd(pk, p + 1) ELSE p

VirtualQueryOk(a) == a \in Mapped

VirtualQuery(pk, a) ==
    LET p == a \div PageSize
    IN  [BaseAddress |-> p * PageSize,
         RegionSize  |-> (RunEnd(pk, p) + 1 - p) * PageSize,
         State       |-> pk[p].State,
         Protect     |-> pk[p].Protect]

-----------------------------------------------------------------------------
(* Pattern and matcher *)

Wild     == [IsWildcard |-> TRUE,  Value |-> 0]
Tok(v)   == [IsWildcard |-> FALSE, Value |-> v]
Size(p)  == Len(p)

(* operator==(const Pattern&, const PBYTE): rhs is the address of the window *)
RECURSIVE PatternEqFrom(_, _, _, _)
PatternEqFrom(m, p, rhs, k) ==
    IF k >= Size(p) THEN TRUE
    ELSE IF ~p[k + 1].IsWildcard /\ p[k + 1].Value # m[rhs + k] THEN FALSE
    ELSE PatternEqFrom(m, p, rhs, k + 1)

(* Mutant: the wildcard flag is ignored, every token compares its Value. *)
M_PatternEqBytes(m, p, rhs) ==
    \A k \in 0 .. (Size(p) - 1) : p[k + 1].Value = m[rhs + k]

PatternEqBytes(m, p, rhs) == PatternEqFrom(m, p, rhs, 0)

-----------------------------------------------------------------------------
(* Instructions *)

Inst(op, v, str, wstr) == [Operation |-> op, Value |-> v, String |-> str, WString |-> wstr]
Offset(v)   == Inst("offset", v, << >>, << >>)
Follow      == Inst("follow", 0, << >>, << >>)
Strcmp(s)   == Inst("strcmp", 0, s, << >>)
Wcscmp(w)   == Inst("wcscmp", 0, << >>, w)
CmpI8(v)    == Inst("cmpi8", v, << >>, << >>)
CmpI16(v)   == Inst("cmpi16", v, << >>, << >>)
CmpI32(v)   == Inst("cmpi32", v, << >>, << >>)
CmpI64(v)   == Inst("cmpi64", v, << >>, << >>)
PushAddr    == Inst("pushaddr", 0, << >>, << >>)
PopAddr     == Inst("popaddr", 0, << >>, << >>)
Max(a, b)   == IF a >= b THEN a ELSE b
AdvWcard(n) == Inst("advwcard", Max(1, n), << >>, << >>)

(* Little-endian reads and two's complement.  The model's integers are those
   of the checker (below 2^31 in magnitude), so a read integer is a record:
   fits says whether the value lies in that range, val is the value. *)
RECURSIVE ReadUInt(_, _, _)
ReadUInt(m, a, n) ==
    IF n = 0 THEN 0 ELSE m[a] + 256 * ReadUInt(m, Wrap(a + 1), n - 1)

ToSigned(u, bits) == IF u >= 2 ^ (bits - 1) THEN u - 2 ^ bits ELSE u

ReadInt32(m, a) ==
    ReadUInt(m, a, 3) + (2 ^ 24) * ToSigned(m[Wrap(a + 3)], 8)

ReadInt(m, a, bytes) ==
    CASE bytes = 1 -> [fits |-> TRUE, val |-> ToSigned(m[a], 8)]
      [] bytes = 2 -> [fits |-> TRUE, val |-> ToSigned(ReadUInt(m, a, 2), 16)]
      [] bytes = 4 -> [fits |-> TRUE, val |-> ReadInt32(m, a)]
      [] bytes = 8 ->
            LET lo == ReadInt32(m, a)
                ext == IF lo < 0 THEN 255 ELSE 0
            IN  [fits |-> \A k \in 4 .. 7 : m[Wrap(a + k)] = ext, val |-> lo]

(* Mutant: the expected value is compared without the cast to the width. *)
M_CastInt(v, bits) == v

(* (intN_t)v for the 64-bit v of an instruction: the low N bits, read as signed.
   Every integer of the model already lies in the range of int32_t and int64_t. *)
CastInt(v, bits) == IF bits >= 32 THEN v ELSE ToSigned(v % (2 ^ bits), bits)

(* FollowRelativeAddress: aAddress + *(int32_t* )aAddress + 4 *)
FollowRelativeAddress(m, a) == Wrap(a + 4 + (ReadInt32(m, a) % AddrSpace))

(* strcmp(target, text) == 0, reading target up to the first difference or NUL.
   The answer is "equal", "differ" or "fault" (a read of unreadable memory). *)
RECURSIVE StrcmpFrom(_, _, _, _, _)
StrcmpFrom(m, pk, target, text, k) ==
    LET a == Wrap(target + k)
        e == IF k < Len(text) THEN text[k + 1] ELSE 0
    IN  IF ~Readable(pk, a) THEN "fault"
        ELSE IF m[a] # e THEN "differ"
        ELSE IF e = 0 THEN "equal"
        ELSE StrcmpFrom(m, pk, target, text, k + 1)

(* wcscmp: the same over 2-byte little-endian code units *)
RECURSIVE WcscmpFrom(_, _, _, _, _)
WcscmpFrom(m, pk, target, text, k) ==
    LET a == Wrap(target + 2 * k)
        e == IF k < Len(text) THEN text[k + 1] ELSE 0
    IN  IF ~RangeReadable(pk, a, 2) THEN "fault"
        ELSE IF ReadUInt(m, a, 2) # e THEN "differ"
        ELSE IF e = 0 THEN "equal"
        ELSE WcscmpFrom(m, pk, target, text, k + 1)

CmpWidth(op) == CASE op = "cmpi8"  -> 1
                  [] op = "cmpi16" -> 2
                  [] op = "cmpi32" -> 4
                  [] op = "cmpi64" -> 8

(* *((intN_t* )resultAddr) == (intN_t)inst.Value *)
CmpIPasses(m, a, bytes, v) ==
    LET r == ReadInt(m, a, bytes)
    IN  r.fits /\ r.val = CastInt(v, 8 * bytes)

-----------------------------------------------------------------------------
(* The state of one verification attempt, and one instruction applied to it.
   fault: the instruction read unreadable memory (an access violation). *)

AttemptState(r, f, s, o) ==
    [resultAddr |-> r, instructionsFailed |-> f, addrStore |-> s,
     offsetFromMatch |-> o, fault |-> FALSE, ub |-> FALSE]

Faulted(st) == [st EXCEPT !.fault = TRUE]

Undefined(st) == [st EXCEPT !.ub = TRUE]

FailIf(st, failed) ==
    [st EXCEPT !.instructionsFailed = @ + (IF failed THEN 1 ELSE 0)]

(* int64_t, scaled down like the addresses: arithmetic wraps to the signed range. *)
IntBits == AddrBits

WrapInt(v) == ToSigned(v % (2 ^ IntBits), IntBits)

(* Mutant: the offset tracker is assigned, not added to. *)
M_ExecOffset(st, inst) ==
    [st EXCEPT !.offsetFromMatch = inst.Value,
               !.resultAddr = Wrap(@ + inst.Value)]

ExecOffset(st, inst) ==
    [st EXCEPT !.offsetFromMatch = WrapInt(@ + inst.Value),
               !.resultAddr = Wrap(@ + inst.Value)]

ExecFollow(m, pk, st) ==
    IF ~RangeReadable(pk, st.resultAddr, 4) THEN Faulted(st)
    ELSE [st EXCEPT !.resultAddr = FollowRelativeAddress(m, st.resultAddr)]

M_ExecStrcmp(m, pk, st, inst) ==
    IF ~RangeReadable(pk, st.resultAddr, 4) THEN Faulted(st)
    ELSE LET r == StrcmpFrom(m, pk, FollowRelativeAddress(m, st.resultAddr), inst.String, 0)
         IN  IF r = "fault" THEN Faulted(st)
             ELSE FailIf([st EXCEPT !.resultAddr = FollowRelativeAddress(m, st.resultAddr)],
                         r # "equal")

ExecStrcmp(m, pk, st, inst) ==
    IF ~RangeReadable(pk, st.resultAddr, 4) THEN Faulted(st)
    ELSE LET r == StrcmpFrom(m, pk, FollowRelativeAddress(m, st.resultAddr), inst.String, 0)
         IN  IF r = "fault" THEN Faulted(st) ELSE FailIf(st, r # "equal")

ExecWcscmp(m, pk, st, inst) ==
    IF ~RangeReadable(pk, st.resultAddr, 4) THEN Faulted(st)
    ELSE LET r == WcscmpFrom(m, pk, FollowRelativeAddress(m, st.resultAddr), inst.WString, 0)
         IN  IF r = "fault" THEN Faulted(st) ELSE FailIf(st, r # "equal")

ExecCmpI(m, pk, st, inst) ==
    LET n == CmpWidth(inst.Operation)
    IN  IF ~RangeReadable(pk, st.resultAddr, n) THEN Faulted(st)
        ELSE FailIf(st, ~CmpIPasses(m, st.resultAddr, n, inst.Value))

ExecPushAddr(st) ==
    [st EXCEPT !.addrStore = Append(@, st.resultAddr)]

(* Mutant: the oldest pushed address is taken instead of the newest. *)
M_ExecPopAddr(st) ==
    [st EXCEPT !.resultAddr = st.addrStore[1], !.addrStore = Tail(@)]

(* addrStore.back(); addrStore.pop_back() on a non-empty stack *)
ExecPopAddr(st) ==
    [st EXCEPT !.resultAddr = st.addrStore[Len(st.addrStore)],
               !.addrStore = SubSeq(@, 1, Len(@) - 1)]

(* back() and pop_back() of an empty vector are undefined: the read is an
   access violation, or yields whatever word lies before the buffer. *)
PopAddrEmptyOutcomes(st) ==
    {Undefined(Faulted(st))} \cup {Undefined([st EXCEPT !.resultAddr = g]) : g \in Addrs}

PopAddrOutcomes(st) ==
    IF Len(st.addrStore) > 0 THEN {ExecPopAddr(st)} ELSE PopAddrEmptyOutcomes(st)


(* advwcard: inst.Value times, move offsetFromMatch to the start of the next
   run of wildcard tokens.  Bytes[k] for Size <= k < MAX_PATTERN_LENGTH is the
   default token; outside the array the read is undefined and yields g. *)
IsWildcardAt(p, k, g) ==
    IF k >= 0 /\ k < Size(p) THEN p[k + 1].IsWildcard
    ELSE IF k >= 0 /\ k < MAX_PATTERN_LENGTH THEN FALSE
    ELSE g

RECURSIVE AdvWhile(_, _, _, _)
AdvWhile(p, ofm, was, g) ==
    IF ~(ofm < Size(p)) THEN ofm
    ELSE IF was /\ IsWildcardAt(p, ofm, g) THEN AdvWhile(p, ofm + 1, was, g)
    ELSE IF ~was /\ IsWildcardAt(p, ofm, g) THEN ofm
    ELSE AdvWhile(p, ofm + 1, FALSE, g)

RECURSIVE AdvSets(_, _, _, _)
AdvSets(p, ofm, n, g) ==
    IF n <= 0 THEN ofm
    ELSE AdvSets(p, AdvWhile(p, ofm, IsWildcardAt(p, ofm, g), g), n - 1, g)

(* Mutant: the advance is added to the cursor, not to the match start. *)
M_ExecAdvWcard(p, st, inst, matchAddr, g) ==
    LET o == AdvSets(p, st.offsetFromMatch, inst.Value, g)
    IN  [st EXCEPT !.offsetFromMatch = o,
                   !.resultAddr = Wrap(@ + o - st.offsetFromMatch)]

ExecAdvWcard(p, st, inst, matchAddr, g) ==
    LET o == AdvSets(p, st.offsetFromMatch, inst.Value, g)
    IN  [st EXCEPT !.offsetFromMatch = o, !.resultAddr = Wrap(matchAddr + o)]

AdvWcardOutcomes(p, st, inst, matchAddr) ==
    IF st.offsetFromMatch >= 0 /\ st.offsetFromMatch < MAX_PATTERN_LENGTH
    THEN {ExecAdvWcard(p, st, inst, matchAddr, FALSE)}
    ELSE {Undefined(ExecAdvWcard(p, st, inst, matchAddr, g)) : g \in BOOLEAN}

(* The switch over inst.Operation: the outcomes of one instruction. *)
ExecInst(m, pk, p, st, inst, matchAddr) ==
    CASE inst.Operation = "offset"   -> {ExecOffset(st, inst)}
      [] inst.Operation = "follow"   -> {ExecFollow(m, pk, st)}
      [] inst.Operation = "strcmp"   -> {ExecStrcmp(m, pk, st, inst)}
      [] inst.Operation = "wcscmp"   -> {ExecWcscmp(m, pk, st, inst)}
      [] inst.Operation \in {"cmpi8", "cmpi16", "cmpi32", "cmpi64"}
                                     -> {ExecCmpI(m, pk, st, inst)}
      [] inst.Operation = "pushaddr" -> {ExecPushAddr(st)}
      [] inst.Operation = "popaddr"  -> PopAddrOutcomes(st)
      [] inst.Operation = "advwcard" -> AdvWcardOutcomes(p, st, inst, matchAddr)
      [] OTHER                       -> {st}


-----------------------------------------------------------------------------
(* PatternScan::Scan, one step at a time *)

(* The three checks a queried region must pass before its bytes are matched. *)
RegionAccepted(p, q) ==
    /\ ~(Size(p) > q.RegionSize)
    /\ ~(q.State # MEM_COMMIT)
    /\ ~(~(q.Protect = PAGE_EXECUTE_READ \/ q.Protect = PAGE_EXECUTE_READWRITE))

(* uint64_t end = mbi.RegionSize - Assembly.Size; for (i = 0; i < end; i++) *)
ByteLoopEnd(q, p) == q.RegionSize - Size(p)

InByteLoop(k, e) == k < e

(* while (resultAddr == nullptr) *)
WalkContinues(r) == r = NULL

Cur == [resultAddr |-> resultAddr, instructionsFailed |-> instructionsFailed,
        addrStore |-> addrStore, offsetFromMatch |-> offsetFromMatch,
        fault |-> FALSE, ub |-> FALSE]

walkVars   == << addr, mbi, base, end >>
inputVars  == << mem, pageKind, Assembly, Instructions, modInfo >>
attemptVars == << resultAddr, instructionsFailed, addrStore, offsetFromMatch, ip, opLog >>

MinOf(S) == CHOOSE x \in S : \A y \in S : x <= y

(* operator==(const Pattern&, const Pattern&): memcmp of the two structs. *)
PatternEqPattern(lhs, rhs) == lhs = rhs

(* std::find_if over the store: the index of the first entry of the pattern,
   0 for end(). *)
FindPattern(store, p) ==
    IF \E k \in 1 .. Len(store) : PatternEqPattern(store[k].Pattern, p)
    THEN MinOf({ k \in 1 .. Len(store) : PatternEqPattern(store[k].Pattern, p) })
    ELSE 0

(* ENABLE_PATTERN_CACHING is defined in the build: the program has callers
   that share the store. *)
CachingEnabled == threads # << >>

M_CachedStart(store, p) ==
    IF FindPattern(store, p) # 0 THEN store[FindPattern(store, p)].Address + 1 ELSE 0

(* The lookup block: "If stored, start from stored address." *)
CachedStart(store, p) ==
    IF FindPattern(store, p) # 0 THEN store[FindPattern(store, p)].Address ELSE 0

(* The insert block of a match at a: push_back unless the pattern is stored. *)
StoreMatch(store, p, a) ==
    IF FindPattern(store, p) = 0 THEN Append(store, [Pattern |-> p, Address |-> a])
    ELSE store

(* if (this->Assembly.Size == 0) { return nullptr; }  PBYTE addr = 0; and with
   ENABLE_PATTERN_CACHING the lookup block *)
ScanEnter ==
    /\ pc = "enter"
    /\ pc' = IF Size(Assembly) = 0 THEN "done" ELSE "while"
    /\ addr' = IF Size(Assembly) # 0 /\ CachingEnabled
               THEN CachedStart(s_PatternMatchStore, Assembly)
               ELSE addr
    /\ UNCHANGED << inputVars, mbi, base, end, i, attemptVars, tested, scanned, attempts >>
    /\ UNCHANGED otherVars

(* Mutant: the query address is not advanced. *)
M_NextQueryAddr(a, q) == a

(* addr += mbi.RegionSize; *)
NextQueryAddr(a, q) == a + q.RegionSize

(* One turn of the while loop up to the byte loop: VirtualQuery, the advance of
   the query address, and the three checks that skip a region. *)
ScanQuery ==
    /\ pc = "while"
    /\ WalkContinues(resultAddr)
    /\ VirtualQueryOk(addr)
    /\ LET q == VirtualQuery(pageKind, addr)
       IN  /\ mbi' = q
           /\ addr' = NextQueryAddr(addr, q)
           /\ IF RegionAccepted(Assembly, q)
              THEN /\ base' = q.BaseAddress
                   /\ end' = ByteLoopEnd(q, Assembly)
                   /\ i' = 0
                   /\ pc' = "for"
                   /\ scanned' = scanned \cup {q.BaseAddress}
              ELSE /\ pc' = "while"
                   /\ UNCHANGED << base, end, i, scanned >>
    /\ UNCHANGED << inputVars, attemptVars, tested, attempts >>
    /\ UNCHANGED otherVars

(* The while loop ends: a result is set, or VirtualQuery failed.  return resultAddr. *)
ScanReturn ==
    /\ pc = "while"
    /\ ~WalkContinues(resultAddr) \/ ~VirtualQueryOk(addr)
    /\ pc' = "done"
    /\ UNCHANGED << inputVars, walkVars, i, attemptVars, tested, scanned, attempts >>
    /\ UNCHANGED otherVars

M_FreshAttempt(a) == AttemptState(a, 0, addrStore, offsetFromMatch)

(* The locals of the block a match opens: resultAddr = base + i;
   instructionsFailed = 0; addrStore{}; offsetFromMatch = 0. *)
FreshAttempt(a) == AttemptState(a, 0, << >>, 0)

(* One turn of the byte loop: the matcher at base + i; on a match the attempt
   starts with resultAddr = base + i and fresh interpreter state. *)
ScanByte ==
    /\ pc = "for"
    /\ InByteLoop(i, end)
    /\ tested' = tested \cup {base + i}
    /\ IF PatternEqBytes(mem, Assembly, base + i)
       THEN /\ s_PatternMatchStore' =
                 IF CachingEnabled
                 THEN StoreMatch(s_PatternMatchStore, Assembly, base + i)
                 ELSE s_PatternMatchStore
            /\ resultAddr' = FreshAttempt(base + i).resultAddr
            /\ instructionsFailed' = FreshAttempt(base + i).instructionsFailed
            /\ addrStore' = FreshAttempt(base + i).addrStore
            /\ offsetFromMatch' = FreshAttempt(base + i).offsetFromMatch
            /\ ip' = 1
            /\ opLog' = << >>
            /\ pc' = "instr"
            /\ UNCHANGED i
       ELSE /\ i' = i + 1
            /\ UNCHANGED << pc, attemptVars, s_PatternMatchStore >>
    /\ UNCHANGED << inputVars, walkVars, scanned, attempts >>
    /\ UNCHANGED << pureVars, fallbackVars, patchVars, s_PatternMatchMutex, threads,
                    firstWriter >>

(* The byte loop ran out of offsets: back to the while loop. *)
ScanRegionDone ==
    /\ pc = "for"
    /\ ~InByteLoop(i, end)
    /\ pc' = "while"
    /\ UNCHANGED << inputVars, walkVars, i, attemptVars, tested, scanned, attempts >>
    /\ UNCHANGED otherVars

M_Interrupts(failed) == FALSE

(* if (instructionsFailed) { ... break; } after each instruction *)
Interrupts(failed) == failed # 0

(* Mutant: a failed attempt leaves its cursor in resultAddr. *)
M_CursorAfterFailure(r) == r

(* What the failure check after each instruction leaves in resultAddr. *)
CursorAfterFailure(r) == NULL

Logged(st) ==
    Append(opLog, [op |-> Instructions[ip].Operation, before |-> resultAddr,
                   after |-> st.resultAddr, depth |-> Len(addrStore),
                   ub |-> st.ub, fault |-> st.fault])

Attempt(ok, final) ==
    [start |-> base + i, ok |-> ok, final |-> final, queryAddr |-> addr,
     count |-> Cardinality(tested)]

(* The outcome st of the instruction at ip, then the check
   if (instructionsFailed) { resultAddr = nullptr; break; } and, after a failure,
   the step of the byte loop to the next offset. *)
Commit(st) ==
    /\ opLog' = Logged(st)
    /\ instructionsFailed' = st.instructionsFailed
    /\ addrStore' = st.addrStore
    /\ offsetFromMatch' = st.offsetFromMatch
    /\ IF st.fault
       THEN /\ pc' = "crash"
            /\ UNCHANGED << resultAddr, ip, i, attempts >>
       ELSE IF Interrupts(st.instructionsFailed)
       THEN /\ resultAddr' = CursorAfterFailure(st.resultAddr)
            /\ attempts' = Append(attempts, Attempt(FALSE, st.resultAddr))
            /\ i' = i + 1
            /\ pc' = "for"
            /\ UNCHANGED ip
       ELSE /\ resultAddr' = st.resultAddr
            /\ ip' = ip + 1
            /\ UNCHANGED << pc, i, attempts >>
    /\ UNCHANGED << inputVars, walkVars, tested, scanned >>
    /\ UNCHANGED otherVars

AtOp(ops) ==
    /\ pc = "instr"
    /\ ip <= Len(Instructions)
    /\ Instructions[ip].Operation \in ops

ExecHere == ExecInst(mem, pageKind, Assembly, Cur, Instructions[ip], base + i)

OpOffset   == AtOp({"offset"})   /\ \E st \in ExecHere : Commit(st)

OpFollow   == AtOp({"follow"})   /\ \E st \in ExecHere : Commit(st)

OpStrcmp   == AtOp({"strcmp"})   /\ \E st \in ExecHere : Commit(st)

OpWcscmp   == AtOp({"wcscmp"})   /\ \E st \in ExecHere : Commit(st)

OpCmpI     == AtOp({"cmpi8", "cmpi16", "cmpi32", "cmpi64"}) /\ \E st \in ExecHere : Commit(st)

OpPushAddr == AtOp({"pushaddr"}) /\ \E st \in ExecHere : Commit(st)

OpPopAddr  == AtOp({"popaddr"})  /\ \E st \in ExecHere : Commit(st)

OpAdvWcard == AtOp({"advwcard"}) /\ \E st \in ExecHere : Commit(st)

(* Every instruction ran and none failed: if (!instructionsFailed) break; *)
AttemptDone ==
    /\ pc = "instr"
    /\ ip > Len(Instructions)
    /\ attempts' = Append(attempts, Attempt(TRUE, resultAddr))
    /\ pc' = "while"
    /\ UNCHANGED << inputVars, walkVars, i, attemptVars, tested, scanned >>
    /\ UNCHANGED otherVars

Next ==
    \/ ScanEnter
    \/ ScanQuery
    \/ ScanReturn
    \/ ScanByte
    \/ ScanRegionDone
    \/ OpOffset
    \/ OpFollow
    \/ OpStrcmp
    \/ OpWcscmp
    \/ OpCmpI
    \/ OpPushAddr
    \/ OpPopAddr
    \/ OpAdvWcard
    \/ AttemptDone

-----------------------------------------------------------------------------
(* Inputs of the region walk *)

MarkAddrs == PageSize .. (MemEnd - 1)

Images ==
    { [a \in Mapped |-> IF a \in M THEN 1 ELSE 0] :
        M \in { S \in SUBSET MarkAddrs : Cardinality(S) <= MaxMarks } }

LayoutsOf(kinds) ==
    { pk \in [Pages -> kinds \cup {FreePage}] :
        /\ pk[0] = FreePage
        /\ \A p \in Pages \ {0} : pk[p] \in kinds }

WalkPatterns ==
    { << >>, << Tok(1) >>, << Tok(0) >>, << Tok(0), Wild >>, << Wild, Tok(1) >> }

WalkPrograms ==
    { << >>,
      << CmpI8(1) >>,
      << Offset(1), CmpI16(1) >>,
      << Offset(0 - PageSize) >>,
      << PopAddr >>,
      << PushAddr, Offset(1), PopAddr >>,
      << Follow >>,
      << AdvWcard(1) >>,
      << Strcmp(<< 1 >>) >>,
      << Wcscmp(<< 1 >>) >> }

ScanStart ==
    /\ pc = "enter"
    /\ addr = 0
    /\ mbi = [BaseAddress |-> 0, RegionSize |-> 0, State |-> 0, Protect |-> 0]
    /\ base = 0 /\ end = 0 /\ i = 0
    /\ resultAddr = NULL
    /\ instructionsFailed = 0
    /\ addrStore = << >>
    /\ offsetFromMatch = 0
    /\ ip = 1
    /\ tested = {} /\ scanned = {} /\ attempts = << >> /\ opLog = << >>

NoPure == pureIn = [fn |-> "none"] /\ pureOut = << >>

(* No FallbackScan is running: the scan was called directly. *)
NoFallback ==
    /\ Scans = << >> /\ scanIdx = 1 /\ fbPc = "none" /\ fbResult = NULL /\ fbLog = << >>

(* ENABLE_PATTERN_CACHING is not defined: no cache, no concurrent callers. *)
NoCache ==
    /\ s_PatternMatchStore = << >> /\ s_PatternMatchMutex = 0
    /\ threads = << >> /\ firstWriter = << >>

(* No Patch is constructed. *)
NoPatch ==
    /\ patchArgs = [aTarget |-> NULL, aBytesNull |-> TRUE, aBytes |-> << >>]
    /\ Target = NULL /\ OriginalBytes = << >> /\ PatchSize = 0
    /\ patchPc = "none"
    /\ patchObjects = 0
    /\ patchers = << >>
    /\ patchHist = [before |-> << >>, layout |-> << >>, captured |-> << >>,
                    restored |-> << >>, thrown |-> "", copies |-> 0,
                    restores |-> 0, frees |-> 0]

Init ==
    /\ mem \in Images
    /\ pageKind \in LayoutsOf({KindER, KindERW, KindRO, KindRES})
    /\ Assembly \in WalkPatterns
    /\ Instructions \in WalkPrograms
    /\ modInfo = NoModule
    /\ ScanStart
    /\ NoPure
    /\ NoFallback
    /\ NoCache
    /\ NoPatch

Spec == Init /\ [][Next]_vars

-----------------------------------------------------------------------------
(* What the claims speak of, stated over the inputs of a scan *)

(* The regions of the address space, as successive queries report them. *)
RegionStarts(pk) ==
    { p * PageSize : p \in { x \in Pages : x = 0 \/ pk[x - 1] # pk[x] } }

Regions(pk) == { VirtualQuery(pk, a) : a \in RegionStarts(pk) }

(* The token-by-token meaning of a match of pattern p at address a. *)
MatchesAt(m, p, a) ==
    \A k \in 1 .. Len(p) : p[k].IsWildcard \/ p[k].Value = m[a + k - 1]

(* The addresses of a region at which the whole pattern fits. *)
FitsIn(q, p) == { q.BaseAddress + k : k \in 0 .. (q.RegionSize - Len(p)) }

(* The raw matches of the regions the walk accepts. *)
RawMatches ==
    { a \in Mapped :
        \E q \in Regions(pageKind) :
            /\ RegionAccepted(Assembly, q)
            /\ a \in FitsIn(q, Assembly)
            /\ MatchesAt(mem, Assembly, a) }

(* The instruction sequence run from a raw match a, start to end. *)
RECURSIVE RunFrom(_, _, _)
RunFrom(st, k, a) ==
    IF k > Len(Instructions) \/ st.fault \/ st.ub \/ st.instructionsFailed # 0 THEN st
    ELSE LET outs == ExecInst(mem, pageKind, Assembly, st, Instructions[k], a)
         IN  IF Cardinality(outs) = 1
             THEN RunFrom(CHOOSE o \in outs : TRUE, k + 1, a)
             ELSE Undefined(st)

RunAt(a) == RunFrom(AttemptState(a, 0, << >>, 0), 1, a)

Succeeds(a) ==
    LET r == RunAt(a) IN ~r.fault /\ ~r.ub /\ r.instructionsFailed = 0

LastAttempt == attempts[Len(attempts)]

-----------------------------------------------------------------------------
(* C1 (as stated): over a static image Scan returns the final cursor of the
   lowest-address raw match of an accepted region whose instruction sequence
   succeeds, whenever there is one. *)
C1_ReturnsLowestVerifiedMatch ==
    (pc = "done" /\ Len(Assembly) > 0) =>
        LET good == { a \in RawMatches : Succeeds(a) }
        IN  good # {} => resultAddr = RunAt(MinOf(good)).resultAddr

(* C2 (as stated): after an attempt ran to completion with no failed
   comparison, Scan returns its final cursor at once, whatever that cursor is:
   no later offset is tested and no later region is queried. *)
C2_ReturnsAtFirstSuccess ==
    \A k \in 1 .. Len(attempts) :
        attempts[k].ok =>
            /\ k = Len(attempts)
            /\ Cardinality(tested) = attempts[k].count
            /\ addr = attempts[k].queryAddr
            /\ pc \in {"while", "done"}
            /\ pc = "done" => resultAddr = attempts[k].final

(* C3: every non-null address Scan returns is the final cursor of the last
   verification attempt, which started at an address where the pattern matches
   and in which no instruction failed; it is what the instruction sequence
   computes from that address. *)
C3_Soundness ==
    (pc = "done" /\ resultAddr # NULL) =>
        /\ Len(attempts) > 0
        /\ LastAttempt.ok
        /\ LastAttempt.final = resultAddr
        /\ MatchesAt(mem, Assembly, LastAttempt.start)
        /\ LastAttempt.start \in tested
        /\ LET r == RunAt(LastAttempt.start)
           IN  ~r.ub => (r.instructionsFailed = 0 /\ ~r.fault /\ r.resultAddr = resultAddr)

(* C3 witness: a scan returned the cursor of a later attempt after an attempt
   whose instructions failed. *)
C3_Witness ==
    /\ pc = "done"
    /\ resultAddr # NULL
    /\ Len(attempts) >= 2
    /\ ~attempts[1].ok
    /\ Len(Instructions) > 0

(* C4 (as stated): a region is scanned for candidates iff it is committed, at
   least as large as the pattern, and read-only, read-write, execute-read or
   execute-read-write.  Checked once the walk has queried every region. *)
ClaimedAccepted(p, q) ==
    /\ q.State = MEM_COMMIT
    /\ q.RegionSize >= Len(p)
    /\ q.Protect \in {PAGE_READONLY, PAGE_READWRITE, PAGE_EXECUTE_READ, PAGE_EXECUTE_READWRITE}

C4_RegionAcceptance ==
    (pc = "done" /\ Len(Assembly) > 0 /\ ~VirtualQueryOk(addr) /\ resultAddr = NULL) =>
        \A q \in Regions(pageKind) :
            q.BaseAddress \in scanned <=> ClaimedAccepted(Assembly, q)

(* C8 (as stated): PopAddr on an empty address stack fails the attempt: the
   remaining instructions are not run and the walk goes on with the next
   candidate offset. *)
C8_PopEmptyFailsAttempt ==
    \A k \in 1 .. Len(opLog) :
        (opLog[k].op = "popaddr" /\ opLog[k].depth = 0) =>
            /\ k = Len(opLog)
            /\ instructionsFailed # 0
            /\ pc = "for"
            /\ resultAddr = NULL


-----------------------------------------------------------------------------
(* The matcher and the integer comparison applied on their own *)

(* No scan is running. *)
ScanIdle ==
    /\ mem = [a \in Mapped |-> 0]
    /\ pageKind = [p \in Pages |-> FreePage]
    /\ Assembly = << >>
    /\ Instructions = << >>
    /\ modInfo = NoModule
    /\ pc = "idle"
    /\ addr = 0
    /\ mbi = [BaseAddress |-> 0, RegionSize |-> 0, State |-> 0, Protect |-> 0]
    /\ base = 0 /\ end = 0 /\ i = 0
    /\ resultAddr = NULL
    /\ instructionsFailed = 0
    /\ addrStore = << >>
    /\ offsetFromMatch = 0
    /\ ip = 1
    /\ tested = {} /\ scanned = {} /\ attempts = << >> /\ opLog = << >>

MaxPatLen == 3

SeqsUpTo(S, n) == UNION { [1 .. k -> S] : k \in 0 .. n }

MatchTokens == { Wild, Tok(26), Tok(77) }
MatchBytes  == { 26, 77, 78 }

(* The example: "1A 2B ?? 4D" against 1A 2B 00 4D, 1A 2B FF 4D and 1A 2B 00 4E *)
ExamplePattern == << Tok(26), Tok(43), Wild, Tok(77) >>
ExampleWindows ==
    { [a \in 0 .. 3 |-> << 26, 43, 0, 77 >>[a + 1]],
      [a \in 0 .. 3 |-> << 26, 43, 255, 77 >>[a + 1]],
      [a \in 0 .. 3 |-> << 26, 43, 0, 78 >>[a + 1]] }

(* The window holds exactly Size bytes: a read at an index >= Size has no value. *)
MatchInputs ==
    { [fn |-> "match", p |-> p, m |-> w] :
        p \in { ExamplePattern }, w \in ExampleWindows }
    \cup UNION { { [fn |-> "match", p |-> p, m |-> w] :
                     w \in [0 .. (Len(p) - 1) -> MatchBytes] } :
                 p \in SeqsUpTo(MatchTokens, MaxPatLen) }

MatchApply ==
    /\ pureIn.fn = "match"
    /\ pureOut = << >>
    /\ pureOut' = << PatternEqBytes(pureIn.m, pureIn.p, 0) >>
    /\ UNCHANGED << pureIn, scanVars, fallbackVars, patchVars, cacheVars >>

InitMatch == ScanIdle /\ NoFallback /\ NoPatch /\ NoCache /\ pureIn \in MatchInputs /\ pureOut = << >>

NextMatch == MatchApply

SpecMatch == InitMatch /\ [][NextMatch]_vars

(* C5: the matcher answers true iff every token below Size is a wildcard or
   equals the window byte at its index (the window has no byte beyond Size). *)
C5_MatcherIff ==
    (pureIn.fn = "match" /\ pureOut # << >>) =>
        (pureOut[1] <=>
            \A k \in 0 .. (Len(pureIn.p) - 1) :
                pureIn.p[k + 1].IsWildcard \/ pureIn.p[k + 1].Value = pureIn.m[k])

(* C5 witness: a pattern with a wildcard over a byte that differs from the
   token's stored value matched, and the example's third window did not. *)
C5_Witness ==
    /\ pureIn.fn = "match"
    /\ pureIn.p = ExamplePattern
    /\ pureIn.m[2] = 255
    /\ pureOut = << TRUE >>

(* Eight bytes at the cursor and the expected value of a CmpI instruction. *)
CmpLow    == { 0, 77, 128, 255 }
CmpSecond == { 0, 1, 255 }
CmpRest   == { 0, 255 }
CmpExpected == { 0, 77, 333, 128, 0 - 128, 255, 0 - 1, 256, 65535, 65613, 0 - 179 }

CmpImage(b0, b1, e) == [a \in 0 .. 7 |-> IF a = 0 THEN b0 ELSE IF a = 1 THEN b1 ELSE e]

CmpInputs ==
    { [fn |-> "cmpi", m |-> CmpImage(b0, b1, e), bytes |-> n, v |-> v] :
        b0 \in CmpLow, b1 \in CmpSecond, e \in CmpRest,
        n \in {1, 2, 4, 8}, v \in CmpExpected }

CmpApply ==
    /\ pureIn.fn = "cmpi"
    /\ pureOut = << >>
    /\ pureOut' = << CmpIPasses(pureIn.m, 0, pureIn.bytes, pureIn.v) >>
    /\ UNCHANGED << pureIn, scanVars, fallbackVars, patchVars, cacheVars >>

InitCmp == ScanIdle /\ NoFallback /\ NoPatch /\ NoCache /\ pureIn \in CmpInputs /\ pureOut = << >>

NextCmp == CmpApply

SpecCmp == InitCmp /\ [][NextCmp]_vars

(* The signed integer the bytes at address 0 of m hold, for widths whose
   values the model's integers can hold. *)
SignedValue(m, n) ==
    LET top == m[n - 1]
        low == IF n = 1 THEN 0
               ELSE IF n = 2 THEN m[0]
               ELSE m[0] + 256 * m[1] + 65536 * m[2]
        neg == top >= 128
    IN  low + (256 ^ (n - 1)) * (IF neg THEN top - 256 ELSE top)

(* C10 (as stated): CmpI8/16/32/64(expected) passes iff the bytes at the
   cursor, read as a signed integer of the width, equal expected, for every
   expected value, also one outside the signed range of the width. *)
C10_PassesIffEqualsExpected ==
    (pureIn.fn = "cmpi" /\ pureOut # << >> /\ pureIn.bytes <= 4) =>
        (pureOut[1] <=> SignedValue(pureIn.m, pureIn.bytes) = pureIn.v)

(* C10 (amended): the comparison is made at the width of the instruction: it
   passes iff the signed integer at the cursor and expected agree modulo
   2^(8 * width), that is iff it equals expected truncated to the width. *)
C10_PassesIffEqualTruncated ==
    (pureIn.fn = "cmpi" /\ pureOut # << >>) =>
        LET n == pureIn.bytes
        IN  CASE n \in {1, 2} ->
                   (pureOut[1] <=>
                      (SignedValue(pureIn.m, n) - pureIn.v) % (256 ^ n) = 0)
              [] n = 4 ->
                   (pureOut[1] <=> SignedValue(pureIn.m, 4) = pureIn.v)
              [] n = 8 ->
                   (pureOut[1] <=>
                      /\ SignedValue(pureIn.m, 4) = pureIn.v
                      /\ \A k \in 4 .. 7 :
                            pureIn.m[k] = (IF pureIn.v < 0 THEN 255 ELSE 0))

(* C10 witness: CmpI8(0x14D) passed on the byte 0x4D, and CmpI8(0x4D) did. *)
C10_Witness ==
    /\ pureIn.fn = "cmpi"
    /\ pureIn.bytes = 1
    /\ pureIn.v = 333
    /\ pureIn.m[0] = 77
    /\ pureOut = << TRUE >>


-----------------------------------------------------------------------------
(* The interpreter under longer instruction sequences *)

MaxProg == 5

StackOps == { PushAddr, PopAddr, Offset(1), Follow, AdvWcard(1) }

(* No prefix pops more than it pushed. *)
NeverUnderflows(prog) ==
    \A n \in 1 .. Len(prog) :
        Cardinality({ k \in 1 .. n : prog[k].Operation = "popaddr" })
            <= Cardinality({ k \in 1 .. n : prog[k].Operation = "pushaddr" })

StackPrograms == { prog \in SeqsUpTo(StackOps, MaxProg) : NeverUnderflows(prog) }

AllExecuteRead == [p \in Pages |-> IF p = 0 THEN FreePage ELSE KindER]

InterpImages ==
    { [a \in Mapped |-> 0], [a \in Mapped |-> IF a = PageSize THEN 1 ELSE 0] }

InitInterp ==
    /\ mem \in InterpImages
    /\ pageKind = AllExecuteRead
    /\ Assembly = << Tok(0), Wild >>
    /\ Instructions \in StackPrograms \cup WalkPrograms
    /\ modInfo = NoModule
    /\ ScanStart
    /\ NoPure
    /\ NoFallback
    /\ NoCache
    /\ NoPatch

SpecInterp == InitInterp /\ [][Next]_vars

PushesOf(L) == { j \in 1 .. Len(L) : L[j].op = "pushaddr" }
PopsOf(L)   == { j \in 1 .. Len(L) : L[j].op = "popaddr" }

(* The j-th push of the log, counting from 1. *)
NthPush(L, n) ==
    CHOOSE j \in PushesOf(L) : Cardinality({ x \in PushesOf(L) : x <= j }) = n

(* All pushes of the log come before all its pops. *)
PushesThenPops(L) == \A a \in PopsOf(L), b \in PushesOf(L) : b < a

(* C9: after N >= 1 PushAddr and then k <= N PopAddr, with any cursor-moving
   instructions among them, the k-th pop leaves in the cursor the value the
   (N-k+1)-th push stored; after the N-th pop the cursor is the one the first
   push stored and the stack is empty. *)
C9_PushPopLifo ==
    LET L == opLog
        N == Cardinality(PushesOf(L))
        k == Cardinality(PopsOf(L))
    IN  (Len(L) > 0 /\ L[Len(L)].op = "popaddr" /\ PushesThenPops(L) /\ k <= N) =>
            /\ L[Len(L)].after = L[NthPush(L, N - k + 1)].before
            /\ k = N => (addrStore = << >> /\ L[Len(L)].after = L[NthPush(L, 1)].before)
            /\ Len(addrStore) = N - k
            /\ ~L[Len(L)].ub

(* C9 witness: two pushes that stored different cursors, both popped. *)
C9_Witness ==
    /\ Cardinality(PushesOf(opLog)) = 2
    /\ Cardinality(PopsOf(opLog)) = 2
    /\ PushesThenPops(opLog)
    /\ opLog[Len(opLog)].op = "popaddr"
    /\ opLog[NthPush(opLog, 1)].before # opLog[NthPush(opLog, 2)].before
    /\ resultAddr = opLog[NthPush(opLog, 1)].before



-----------------------------------------------------------------------------
(* FallbackScan::Scan: the scans of the list, each run by the machine above *)

MaxScans == 2

PatternScan(p, prog) == [Assembly |-> p, Instructions |-> prog]

(* Mutant: a result never ends the loop. *)
M_FallbackStops(result) == FALSE

(* if (result) *)
FallbackStops(result) == result # NULL

(* for (const PatternScan& scan : this->Scans) { void* result = scan.Scan();
   the call enters PatternScan::Scan of the scan at scanIdx with fresh locals. *)
FallbackCall ==
    /\ fbPc = "loop"
    /\ scanIdx <= Len(Scans)
    /\ Assembly' = Scans[scanIdx].Assembly
    /\ Instructions' = Scans[scanIdx].Instructions
    /\ pc' = "enter"
    /\ addr' = 0
    /\ mbi' = [BaseAddress |-> 0, RegionSize |-> 0, State |-> 0, Protect |-> 0]
    /\ base' = 0 /\ end' = 0 /\ i' = 0
    /\ resultAddr' = NULL
    /\ instructionsFailed' = 0
    /\ addrStore' = << >>
    /\ offsetFromMatch' = 0
    /\ ip' = 1
    /\ tested' = {} /\ scanned' = {} /\ attempts' = << >> /\ opLog' = << >>
    /\ fbPc' = "call"
    /\ UNCHANGED << mem, pageKind, modInfo, Scans, scanIdx, fbResult, fbLog >>
    /\ UNCHANGED << pureVars, patchVars, cacheVars >>

(* The scan returned: if (result) { return (T)result; }, else the next scan. *)
FallbackResult ==
    /\ fbPc = "call"
    /\ pc = "done"
    /\ fbLog' = Append(fbLog, [idx |-> scanIdx, scan |-> Scans[scanIdx],
                               result |-> resultAddr])
    /\ IF FallbackStops(resultAddr)
       THEN /\ fbResult' = resultAddr
            /\ fbPc' = "done"
            /\ UNCHANGED scanIdx
       ELSE /\ scanIdx' = scanIdx + 1
            /\ fbPc' = "loop"
            /\ UNCHANGED fbResult
    /\ UNCHANGED << scanVars, Scans >>
    /\ UNCHANGED << pureVars, patchVars, cacheVars >>

(* The list is exhausted: return (T)nullptr; *)
FallbackNotFound ==
    /\ fbPc = "loop"
    /\ scanIdx > Len(Scans)
    /\ fbResult' = NULL
    /\ fbPc' = "done"
    /\ UNCHANGED << scanVars, Scans, scanIdx, fbLog >>
    /\ UNCHANGED << pureVars, patchVars, cacheVars >>

(* The scans a list is made of: one that never matches (no byte of an image
   is 2) and four whose programs use every instruction between them. *)
NeverMatches == PatternScan(<< Tok(2) >>, << >>)

FallbackScans ==
    { NeverMatches,
      PatternScan(<< Tok(1) >>, << PushAddr, Offset(1), PopAddr, CmpI8(1) >>),
      PatternScan(<< Tok(0), Wild >>, << AdvWcard(1), Strcmp(<< 1 >>) >>),
      PatternScan(<< Tok(1) >>, << Follow >>),
      PatternScan(<< Tok(0) >>, << Wcscmp(<< 1 >>) >>) }

InitFallback ==
    /\ mem \in Images
    /\ pageKind = AllExecuteRead
    /\ Assembly = << >>
    /\ Instructions = << >>
    /\ modInfo = NoModule
    /\ pc = "idle"
    /\ addr = 0
    /\ mbi = [BaseAddress |-> 0, RegionSize |-> 0, State |-> 0, Protect |-> 0]
    /\ base = 0 /\ end = 0 /\ i = 0
    /\ resultAddr = NULL
    /\ instructionsFailed = 0
    /\ addrStore = << >>
    /\ offsetFromMatch = 0
    /\ ip = 1
    /\ tested = {} /\ scanned = {} /\ attempts = << >> /\ opLog = << >>
    /\ Scans \in SeqsUpTo(FallbackScans, MaxScans)
    /\ scanIdx = 1 /\ fbPc = "loop" /\ fbResult = NULL /\ fbLog = << >>
    /\ NoPure
    /\ NoPatch
    /\ NoCache

NextFallback ==
    \/ FallbackCall
    \/ FallbackResult
    \/ FallbackNotFound
    \/ Next

SpecFallback == InitFallback /\ [][NextFallback]_vars

FirstFound(L) == MinOf({ k \in 1 .. Len(L) : L[k].result # NULL })

(* C7: when FallbackScan::Scan has returned, the scans that ran are the
   first scans of the list in list order, each run once; if one of them
   returned an address, it is the last scan that ran (no later scan was run)
   and its result is the value returned; the value returned is NotFound iff
   every scan of the list ran and returned NotFound; nothing of a scan runs
   after the return. *)
C7_FirstFoundInListOrder ==
    fbPc = "done" =>
        /\ pc \in { "idle", "done" }
        /\ Len(fbLog) <= Len(Scans)
        /\ \A k \in 1 .. Len(fbLog) : fbLog[k].idx = k /\ fbLog[k].scan = Scans[k]
        /\ (\E k \in 1 .. Len(fbLog) : fbLog[k].result # NULL) =>
               /\ FirstFound(fbLog) = Len(fbLog)
               /\ fbResult = fbLog[Len(fbLog)].result
        /\ (fbResult = NULL) <=>
               /\ Len(fbLog) = Len(Scans)
               /\ \A k \in 1 .. Len(fbLog) : fbLog[k].result = NULL

(* C7 witness: the first scan of the list never matches, the second matches
   at the marked byte Y, and FallbackScan::Scan returned Y. *)
C7_Witness ==
    /\ fbPc = "done"
    /\ Len(Scans) = 2
    /\ Scans[1] = NeverMatches
    /\ Len(fbLog) = 2
    /\ fbLog[1].result = NULL
    /\ fbResult # NULL
    /\ fbResult = fbLog[2].result
    /\ fbResult \in Mapped
    /\ mem[fbResult] = 1


-----------------------------------------------------------------------------
(* Patch: the constructor applies, the destructor releases *)

MaxPatch == 2

(* strlen(aBytes): the bytes before the first 0x00 (the terminator when the
   argument holds none). *)
RECURSIVE StrlenFrom(_, _)
StrlenFrom(bytes, k) ==
    IF k > Len(bytes) \/ bytes[k] = 0 THEN k - 1 ELSE StrlenFrom(bytes, k + 1)

Strlen(bytes) == StrlenFrom(bytes, 1)

PagesOf(a, n) == { (a + k) \div PageSize : k \in 0 .. (n - 1) }

(* VirtualProtect succeeds iff every page of [a, a + n) is committed. *)
VirtualProtectOk(pk, a, n) ==
    /\ n > 0
    /\ \A k \in 0 .. (n - 1) : a + k \in Mapped
    /\ \A p \in PagesOf(a, n) : pk[p].State = MEM_COMMIT

(* The protection of the first page of the range, handed back in oldProtect. *)
OldProtect(pk, a) == pk[a \div PageSize].Protect

VirtualProtect(pk, a, n, prot) ==
    [p \in Pages |-> IF p \in PagesOf(a, n) THEN Kind(MEM_COMMIT, prot) ELSE pk[p]]

(* memcpy(dst, src, n) into the image, and memcpy out of it into a buffer. *)
CopyIn(m, dst, src, n) ==
    [a \in Mapped |-> IF a >= dst /\ a < dst + n THEN src[a - dst + 1] ELSE m[a]]

CopyOut(m, src, n) == [k \in 1 .. n |-> m[src + k - 1]]

(* Mutant: the new bytes are written before the original bytes are copied. *)
M_PatchCapture(m, target, bytes, n) ==
    LET written == CopyIn(m, target, bytes, n)
    IN  [OriginalBytes |-> CopyOut(written, target, n), mem |-> written]

(* memcpy(this->OriginalBytes, aTarget, Size); memcpy(aTarget, aBytes, Size); *)
PatchCapture(m, target, bytes, n) ==
    LET original == CopyOut(m, target, n)
    IN  [OriginalBytes |-> original, mem |-> CopyIn(m, target, bytes, n)]

(* Mutant: the check of the length is left out. *)
M_CtorThrows(t, bytesNull, n) ==
    IF t = NULL THEN "Target is nullptr."
    ELSE IF bytesNull THEN "Patch Bytes are nullptr."
    ELSE ""

(* The three throw statements of the constructor, "" when none is reached. *)
CtorThrows(t, bytesNull, n) ==
    IF t = NULL THEN "Target is nullptr."
    ELSE IF bytesNull THEN "Patch Bytes are nullptr."
    ELSE IF n = 0 THEN "Patch Bytes are size 0."
    ELSE ""

(* Patch(void* aTarget, const char* aBytes) *)
PatchCtor ==
    /\ patchPc = "new"
    /\ LET t == patchArgs.aTarget
           n == Strlen(patchArgs.aBytes)
           thrown == CtorThrows(t, patchArgs.aBytesNull, n)
       IN  IF t = NULL \/ patchArgs.aBytesNull
           THEN /\ patchPc' = "thrown"
                /\ patchHist' = [patchHist EXCEPT !.thrown = thrown]
                /\ UNCHANGED << mem, pageKind, Target, PatchSize, OriginalBytes,
                                patchObjects >>
           ELSE /\ Target' = t
                /\ PatchSize' = n
                /\ IF thrown # ""
                   THEN /\ patchPc' = "thrown"
                        /\ patchHist' = [patchHist EXCEPT !.thrown = thrown]
                        /\ UNCHANGED << mem, pageKind, OriginalBytes, patchObjects >>
                   ELSE IF VirtualProtectOk(pageKind, t, n)
                   THEN LET old == OldProtect(pageKind, t)
                            c   == PatchCapture(mem, t, patchArgs.aBytes, n)
                        IN  /\ OriginalBytes' = c.OriginalBytes
                            /\ mem' = c.mem
                            /\ pageKind' = VirtualProtect(pageKind, t, n, old)
                            /\ patchHist' = [patchHist EXCEPT !.captured = c.OriginalBytes]
                            /\ patchPc' = "live"
                            /\ patchObjects' = 1
                   ELSE /\ patchPc' = "live"
                        /\ patchObjects' = 1
                        /\ UNCHANGED << mem, pageKind, OriginalBytes, patchHist >>
    /\ UNCHANGED << Assembly, Instructions, modInfo, pc, walkVars, i, attemptVars,
                    tested, scanned, attempts >>
    /\ UNCHANGED << patchArgs, patchers, pureVars, fallbackVars, cacheVars >>

(* delete this->OriginalBytes on a buffer got from new uint8_t[Size]: deleting
   nullptr does nothing; the scalar delete of an array is undefined, it frees
   the buffer or faults in the heap. *)
DeleteOutcomes(buffer) ==
    IF buffer = << >> THEN { "released" } ELSE { "released", "heapfault" }

PatchBytes == { 0, 2 }

MaxCopies == 1

(* The implicit copy constructor: Patch declares none, so a copy holds the
   same Target, OriginalBytes and Size. *)
PatchCopy ==
    /\ patchPc = "live"
    /\ patchHist.copies < MaxCopies
    /\ patchObjects' = patchObjects + 1
    /\ patchHist' = [patchHist EXCEPT !.copies = @ + 1]
    /\ UNCHANGED << mem, pageKind, Assembly, Instructions, modInfo, pc, walkVars, i, attemptVars,
                    tested, scanned, attempts >>
    /\ UNCHANGED << patchArgs, Target, PatchSize, OriginalBytes, patchPc, patchers,
                    pureVars, fallbackVars, cacheVars >>

(* What memcpy reads from this->OriginalBytes: the snapshot, or, once the
   buffer has been deleted through another copy, whatever the heap holds there. *)
SnapshotRead ==
    IF patchHist.frees = 0 THEN { OriginalBytes }
    ELSE [1 .. PatchSize -> PatchBytes]

(* The life of the objects after one of them is destroyed. *)
AfterDelete(outcome) ==
    IF outcome = "released" /\ patchObjects > 1 THEN "live" ELSE outcome

(* ~Patch() of one of the live objects *)
PatchDtor ==
    /\ patchPc = "live"
    /\ patchObjects' = patchObjects - 1
    /\ IF VirtualProtectOk(pageKind, Target, PatchSize)
       THEN IF OriginalBytes = << >>
            THEN /\ patchPc' = "crash"
                 /\ UNCHANGED << mem, pageKind, patchHist >>
            ELSE /\ \E bytes \in SnapshotRead :
                      /\ mem' = CopyIn(mem, Target, bytes, PatchSize)
                      /\ patchHist' = [patchHist EXCEPT !.restored = bytes,
                                                        !.restores = @ + 1,
                                                        !.frees = @ + 1]
                 /\ pageKind' = VirtualProtect(pageKind, Target, PatchSize,
                                               OldProtect(pageKind, Target))
                 /\ \E outcome \in DeleteOutcomes(OriginalBytes) :
                      patchPc' = AfterDelete(outcome)
       ELSE /\ \E outcome \in DeleteOutcomes(OriginalBytes) :
                 patchPc' = AfterDelete(outcome)
            /\ patchHist' = [patchHist EXCEPT
                                !.frees = @ + (IF OriginalBytes = << >> THEN 0 ELSE 1)]
            /\ UNCHANGED << mem, pageKind >>
    /\ UNCHANGED << Assembly, Instructions, modInfo, pc, walkVars, i, attemptVars,
                    tested, scanned, attempts >>
    /\ UNCHANGED << patchArgs, Target, PatchSize, OriginalBytes, patchers, pureVars,
                    fallbackVars, cacheVars >>

PatchTargets == Mapped \cup { MemEnd }

PatchArgs ==
    { [aTarget |-> t, aBytesNull |-> FALSE, aBytes |-> b] :
        t \in PatchTargets, b \in SeqsUpTo(PatchBytes, MaxPatch) }
    \cup { [aTarget |-> t, aBytesNull |-> TRUE, aBytes |-> << >>] : t \in PatchTargets }

InitPatch ==
    /\ mem \in InterpImages
    /\ pageKind \in LayoutsOf({KindRO, KindERW, KindRES})
    /\ Assembly = << >>
    /\ Instructions = << >>
    /\ modInfo = NoModule
    /\ pc = "idle"
    /\ addr = 0
    /\ mbi = [BaseAddress |-> 0, RegionSize |-> 0, State |-> 0, Protect |-> 0]
    /\ base = 0 /\ end = 0 /\ i = 0
    /\ resultAddr = NULL
    /\ instructionsFailed = 0
    /\ addrStore = << >>
    /\ offsetFromMatch = 0
    /\ ip = 1
    /\ tested = {} /\ scanned = {} /\ attempts = << >> /\ opLog = << >>
    /\ patchArgs \in PatchArgs
    /\ Target = NULL /\ OriginalBytes = << >> /\ PatchSize = 0
    /\ patchPc = "new"
    /\ patchObjects = 0
    /\ patchers = << >>
    /\ patchHist = [before |-> mem, layout |-> pageKind, captured |-> << >>,
                    restored |-> << >>, thrown |-> "", copies |-> 0,
                    restores |-> 0, frees |-> 0]
    /\ NoPure
    /\ NoFallback
    /\ NoCache

(* The host program commits a page while the Patch is alive (VirtualAlloc
   with MEM_COMMIT on a page that was reserved or free). *)
HostCommit ==
    /\ patchPc = "live"
    /\ \E p \in Pages \ {0} :
         /\ pageKind[p].State # MEM_COMMIT
         /\ pageKind' = [pageKind EXCEPT ![p] = KindRO]
    /\ UNCHANGED << mem, Assembly, Instructions, modInfo, pc, walkVars, i, attemptVars,
                    tested, scanned, attempts >>
    /\ UNCHANGED << patchVars, pureVars, fallbackVars, cacheVars >>

NextPatch ==
    \/ PatchCtor
    \/ PatchDtor
    \/ HostCommit
    \/ PatchCopy

SpecPatch == InitPatch /\ [][NextPatch]_vars

PatchEnded == patchPc \in { "released", "heapfault" }

(* C6: once a Patch that was constructed (and never copied) has been destroyed, every byte of
   its target range (and of the rest of memory) has the value it had before
   the constructor ran, and the bytes the destructor wrote back, if it wrote
   any, are the bytes the constructor captured. *)
C6_PatchRoundTrip ==
    (PatchEnded /\ patchHist.copies = 0) =>
        /\ \A a \in Mapped : mem[a] = patchHist.before[a]
        /\ patchHist.restored # << >> => patchHist.restored = patchHist.captured
        /\ patchHist.captured # << >> => patchHist.restored = patchHist.captured

(* C6 witness: a destroyed Patch of two bytes, both different from the bytes
   that were at the target before, over a range that crosses a page boundary. *)
C6_Witness ==
    /\ patchPc = "released"
    /\ PatchSize = 2
    /\ Len(patchHist.restored) = 2
    /\ Target \div PageSize # (Target + 1) \div PageSize
    /\ \A k \in 0 .. 1 : patchArgs.aBytes[k + 1] # patchHist.before[Target + k]


-----------------------------------------------------------------------------
(* The empty instruction sequence *)

(* C11 (as stated): a scan with no instructions returns the lowest raw match
   of the regions the walk accepts, as its result, whenever there is one. *)
C11_EmptyProgramReturnsFirstRawMatch ==
    (pc = "done" /\ Len(Assembly) > 0 /\ Instructions = << >> /\ RawMatches # {}) =>
        resultAddr = MinOf(RawMatches)


-----------------------------------------------------------------------------
(* Offset applied on its own: twice, and once with the sum *)

SignedInts == (0 - 2 ^ (IntBits - 1)) .. (2 ^ (IntBits - 1) - 1)

OffsetCursors == { 0, 1, PageSize, AddrSpace - 1 }

OffsetInputs ==
    { [fn |-> "offset", cursor |-> c, tracker |-> t, a |-> a, b |-> b] :
        c \in OffsetCursors, t \in SignedInts, a \in SignedInts, b \in SignedInts }

OffsetApply ==
    /\ pureIn.fn = "offset"
    /\ pureOut = << >>
    /\ LET st == AttemptState(pureIn.cursor, 0, << >>, pureIn.tracker)
       IN  pureOut' =
             << [two |-> ExecOffset(ExecOffset(st, Offset(pureIn.a)), Offset(pureIn.b)),
                 one |-> ExecOffset(st, Offset(WrapInt(pureIn.a + pureIn.b)))] >>
    /\ UNCHANGED << pureIn, scanVars, fallbackVars, patchVars, cacheVars >>

InitOffset == ScanIdle /\ NoFallback /\ NoPatch /\ NoCache /\ pureIn \in OffsetInputs /\ pureOut = << >>

NextOffset == OffsetApply

SpecOffset == InitOffset /\ [][NextOffset]_vars

(* C12: Offset(a) then Offset(b) leaves the cursor and the offset tracker as
   the single Offset(a + b) does, from every cursor and tracker value, and
   neither fails the attempt nor faults. *)
C12_OffsetAdditive ==
    (pureIn.fn = "offset" /\ pureOut # << >>) =>
        /\ pureOut[1].two.resultAddr = pureOut[1].one.resultAddr
        /\ pureOut[1].two.offsetFromMatch = pureOut[1].one.offsetFromMatch
        /\ pureOut[1].two.instructionsFailed = 0
        /\ pureOut[1].one.instructionsFailed = 0
        /\ ~pureOut[1].two.fault /\ ~pureOut[1].two.ub
        /\ pureOut[1].two.resultAddr = Wrap(pureIn.cursor + pureIn.a + pureIn.b)

(* C12 witness: offsets of opposite sign whose first step wraps the tracker
   and moves the cursor below its start, applied from a non-zero tracker. *)
C12_Witness ==
    /\ pureIn.fn = "offset"
    /\ pureOut # << >>
    /\ pureIn.a < 0 /\ pureIn.b > 0 /\ pureIn.a + pureIn.b # 0
    /\ pureIn.tracker + pureIn.a < 0 - 2 ^ (IntBits - 1)
    /\ pureIn.cursor = 1
    /\ pureOut[1].two.resultAddr # pureIn.cursor


-----------------------------------------------------------------------------
(* AdvWcard applied on its own *)

MaxAdvLen == 5

AdvPatterns == SeqsUpTo({ Wild, Tok(0) }, MaxAdvLen) \ { << >> }

AdvInputs ==
    { [fn |-> "advwcard", p |-> p, pos |-> k, n |-> n, cursor |-> c, match |-> PageSize] :
        p \in AdvPatterns, k \in 0 .. (MaxAdvLen - 1), n \in 0 .. 3,
        c \in { PageSize, AddrSpace - 1 } }

AdvApply ==
    /\ pureIn.fn = "advwcard"
    /\ pureOut = << >>
    /\ pureOut' =
         << AdvWcardOutcomes(pureIn.p,
                             AttemptState(pureIn.cursor, 0, << >>, pureIn.pos),
                             AdvWcard(pureIn.n), pureIn.match) >>
    /\ UNCHANGED << pureIn, scanVars, fallbackVars, patchVars, cacheVars >>

InitAdv == ScanIdle /\ NoFallback /\ NoPatch /\ NoCache /\ pureIn \in AdvInputs /\ pureOut = << >>

NextAdv == AdvApply

SpecAdv == InitAdv /\ [][NextAdv]_vars

(* The pattern indices at which a maximal run of wildcard tokens starts. *)
RunStarts(p) ==
    { k \in 0 .. (Len(p) - 1) :
        p[k + 1].IsWildcard /\ (k = 0 \/ ~p[k].IsWildcard) }

RunsAfter(p, pos) == { k \in RunStarts(p) : k > pos }

NthOf(S, n) == CHOOSE x \in S : Cardinality({ y \in S : y < x }) = n - 1

(* C13: from a position inside the pattern with at least n wildcard runs
   after it, AdvWcard(n) (n < 1 taken as 1) leaves the cursor at match start
   + k and the tracker at k, k the start of the n-th of those runs, whatever
   the cursor was before; AdvWcard never fails the attempt. *)
C13_AdvWcardNthRun ==
    (pureIn.fn = "advwcard" /\ pureOut # << >>) =>
        LET n    == Max(1, pureIn.n)
            runs == RunsAfter(pureIn.p, pureIn.pos)
        IN  /\ \A o \in pureOut[1] : o.instructionsFailed = 0
            /\ (pureIn.pos < Len(pureIn.p) /\ Cardinality(runs) >= n) =>
                   \A o \in pureOut[1] :
                       /\ o.resultAddr = Wrap(pureIn.match + NthOf(runs, n))
                       /\ o.offsetFromMatch = NthOf(runs, n)
                       /\ ~o.fault /\ ~o.ub

(* C13 witness: AdvWcard(2) from inside the first of three wildcard runs,
   with the cursor away from the match, lands on the third run. *)
C13_Witness ==
    /\ pureIn.fn = "advwcard"
    /\ pureOut # << >>
    /\ pureIn.p = << Wild, Tok(0), Wild, Tok(0), Wild >>
    /\ pureIn.pos = 0 /\ pureIn.n = 2
    /\ pureIn.cursor # pureIn.match
    /\ \A o \in pureOut[1] : o.resultAddr = pureIn.match + 4


-----------------------------------------------------------------------------
(* PatternScan::Scan with ENABLE_PATTERN_CACHING, called by several threads *)

NumThreads == 2

Threads == 1 .. NumThreads

(* Mutant: the mutex is handed out while it is held. *)
M_MutexFree(mtx) == TRUE

(* std::lock_guard: the constructor returns once no thread holds the mutex. *)
MutexFree(mtx) == mtx = 0

(* The addresses the matcher is applied to by the walk that starts its
   queries at a, in order. *)
RECURSIVE WalkTested(_, _, _)
WalkTested(pk, p, a) ==
    IF ~VirtualQueryOk(a) THEN << >>
    ELSE LET q == VirtualQuery(pk, a)
             here == IF RegionAccepted(p, q)
                     THEN [k \in 1 .. ByteLoopEnd(q, p) |-> q.BaseAddress + k - 1]
                     ELSE << >>
         IN  here \o WalkTested(pk, p, NextQueryAddr(a, q))

RECURSIVE HitsOf(_, _, _)
HitsOf(m, p, tested_) ==
    IF tested_ = << >> THEN << >>
    ELSE (IF PatternEqBytes(m, p, Head(tested_)) THEN << Head(tested_) >> ELSE << >>)
         \o HitsOf(m, p, Tail(tested_))

WalkHits(t) == HitsOf(mem, threads[t].Assembly, WalkTested(pageKind, threads[t].Assembly, threads[t].addr))

CacheUnchanged == UNCHANGED << scanVars, pureVars, fallbackVars, patchVars >>

(* const std::lock_guard<std::mutex> lock(s_PatternMatchMutex);  (lookup block) *)
CacheLookupLock(t) ==
    /\ threads[t].pc = "enter"
    /\ MutexFree(s_PatternMatchMutex)
    /\ s_PatternMatchMutex' = t
    /\ threads' = [threads EXCEPT ![t].pc = "lookup"]
    /\ UNCHANGED << s_PatternMatchStore, firstWriter >>
    /\ CacheUnchanged

(* find_if; if (it != end()) addr = it->Address; the block ends, the lock is released. *)
CacheLookup(t) ==
    /\ threads[t].pc = "lookup"
    /\ LET it == FindPattern(s_PatternMatchStore, threads[t].Assembly)
       IN  threads' = [threads EXCEPT
               ![t].addr = IF it # 0 THEN s_PatternMatchStore[it].Address ELSE 0,
               ![t].pc = "walk"]
    /\ s_PatternMatchMutex' = 0
    /\ UNCHANGED << s_PatternMatchStore, firstWriter >>
    /\ CacheUnchanged

(* The region walk and the byte loop up to the next address where the matcher
   answers true, or to the end of the walk: return nullptr. *)
CacheWalk(t) ==
    /\ threads[t].pc = "walk"
    /\ IF threads[t].hit < Len(WalkHits(t))
       THEN threads' = [threads EXCEPT ![t].hit = @ + 1, ![t].pc = "match"]
       ELSE threads' = [threads EXCEPT ![t].resultAddr = NULL, ![t].pc = "done"]
    /\ UNCHANGED << s_PatternMatchStore, s_PatternMatchMutex, firstWriter >>
    /\ CacheUnchanged

(* if (isMatch) { const std::lock_guard<std::mutex> lock(s_PatternMatchMutex); *)
CacheInsertLock(t) ==
    /\ threads[t].pc = "match"
    /\ MutexFree(s_PatternMatchMutex)
    /\ s_PatternMatchMutex' = t
    /\ threads' = [threads EXCEPT ![t].pc = "find"]
    /\ UNCHANGED << s_PatternMatchStore, firstWriter >>
    /\ CacheUnchanged

(* auto it = std::find_if(...) in the insert block *)
CacheInsertFind(t) ==
    /\ threads[t].pc = "find"
    /\ threads' = [threads EXCEPT
           ![t].it = FindPattern(s_PatternMatchStore, threads[t].Assembly),
           ![t].pc = "push"]
    /\ UNCHANGED << s_PatternMatchStore, s_PatternMatchMutex, firstWriter >>
    /\ CacheUnchanged

(* if (it == end()) push_back(PatternMatch{ Assembly, base + i }); the block
   ends, the lock is released. *)
CacheInsertPush(t) ==
    /\ threads[t].pc = "push"
    /\ LET entry == [Pattern |-> threads[t].Assembly,
                     Address |-> WalkHits(t)[threads[t].hit]]
       IN  /\ s_PatternMatchStore' =
                 IF threads[t].it = 0 THEN Append(s_PatternMatchStore, entry)
                 ELSE s_PatternMatchStore
           /\ firstWriter' =
                 IF FindPattern(firstWriter, entry.Pattern) = 0
                 THEN Append(firstWriter, entry)
                 ELSE firstWriter
    /\ s_PatternMatchMutex' = IF s_PatternMatchMutex = t THEN 0 ELSE s_PatternMatchMutex
    /\ threads' = [threads EXCEPT ![t].pc = "verify"]
    /\ CacheUnchanged

(* The instruction sequence at the match: it succeeds and Scan returns, or
   it fails and the byte loop goes on. *)
CacheVerify(t) ==
    /\ threads[t].pc = "verify"
    /\ \E ok \in BOOLEAN :
         threads' = IF ok
                    THEN [threads EXCEPT ![t].resultAddr = WalkHits(t)[threads[t].hit],
                                         ![t].pc = "done"]
                    ELSE [threads EXCEPT ![t].pc = "walk"]
    /\ UNCHANGED << s_PatternMatchStore, s_PatternMatchMutex, firstWriter >>
    /\ CacheUnchanged

CachePatterns == { << Tok(1) >>, << Tok(1), Wild >> }

(* Images with one and with two places where the patterns match. *)
CacheImages ==
    { [a \in Mapped |-> IF a \in M THEN 1 ELSE 0] :
        M \in { { PageSize + 1 }, { PageSize, PageSize + 1 } } }

InitCache ==
    /\ mem \in CacheImages
    /\ pageKind = AllExecuteRead
    /\ Assembly = << >>
    /\ Instructions = << >>
    /\ modInfo = NoModule
    /\ pc = "idle"
    /\ addr = 0
    /\ mbi = [BaseAddress |-> 0, RegionSize |-> 0, State |-> 0, Protect |-> 0]
    /\ base = 0 /\ end = 0 /\ i = 0
    /\ resultAddr = NULL
    /\ instructionsFailed = 0
    /\ addrStore = << >>
    /\ offsetFromMatch = 0
    /\ ip = 1
    /\ tested = {} /\ scanned = {} /\ attempts = << >> /\ opLog = << >>
    /\ NoPure /\ NoFallback /\ NoPatch
    /\ s_PatternMatchStore = << >>
    /\ s_PatternMatchMutex = 0
    /\ firstWriter = << >>
    /\ threads \in [Threads -> { [Assembly |-> p, pc |-> "enter", addr |-> 0, hit |-> 0,
                                  it |-> 0, resultAddr |-> NULL] : p \in CachePatterns }]

NextCache ==
    \E t \in Threads :
        \/ CacheLookupLock(t)
        \/ CacheLookup(t)
        \/ CacheWalk(t)
        \/ CacheInsertLock(t)
        \/ CacheInsertFind(t)
        \/ CacheInsertPush(t)
        \/ CacheVerify(t)

SpecCache == InitCache /\ [][NextCache]_vars


EntriesOf(store, p) == { k \in 1 .. Len(store) : store[k].Pattern = p }

(* C14: in every state of every interleaving the cache holds at most one
   entry per pattern value; the entry of a pattern is the one the first thread
   through the insert block for that pattern wrote, and it is still there:
   later passes through the insert block neither replace nor remove it. *)
C14_CacheOneEntryFirstWriterWins ==
    /\ \A j, k \in 1 .. Len(s_PatternMatchStore) :
           s_PatternMatchStore[j].Pattern = s_PatternMatchStore[k].Pattern => j = k
    /\ \A p \in CachePatterns :
           /\ Cardinality(EntriesOf(s_PatternMatchStore, p)) <= 1
           /\ \A w \in EntriesOf(firstWriter, p) :
                  \E k \in EntriesOf(s_PatternMatchStore, p) :
                      s_PatternMatchStore[k] = firstWriter[w]
           /\ EntriesOf(s_PatternMatchStore, p) # {} => EntriesOf(firstWriter, p) # {}

(* C14 witness: two threads scanning for the same pattern have both been
   through the insert block, one of them with an address other than the one
   stored, and the cache holds the first writer's entry. *)
C14_Witness ==
    /\ Len(s_PatternMatchStore) = 1
    /\ \A t \in Threads : threads[t].Assembly = s_PatternMatchStore[1].Pattern
    /\ \A t \in Threads : threads[t].pc \in { "verify", "done" } /\ threads[t].hit > 0
    /\ \E t \in Threads :
           threads[t].pc = "verify"
           /\ WalkHits(t)[threads[t].hit] # s_PatternMatchStore[1].Address


-----------------------------------------------------------------------------
(* Termination of PatternScan::Scan *)

(* The calling thread runs Scan step after step: a step that can be taken is
   taken. *)
InitLive ==
    /\ mem \in InterpImages
    /\ pageKind \in LayoutsOf({KindER, KindERW, KindRES})
    /\ Assembly \in { << >>, << Tok(0) >>, << Tok(0), Wild >> }
    /\ Instructions \in WalkPrograms
    /\ modInfo = NoModule
    /\ ScanStart
    /\ NoPure
    /\ NoFallback
    /\ NoCache
    /\ NoPatch

SpecLive == InitLive /\ [][Next]_vars /\ WF_vars(Next)

(* Scan has returned, or an access violation has ended it. *)
ScanEnded == pc \in { "done", "crash" }

(* A query moves the query address up and reports a region that starts at or
   after the end of the region reported before. *)
QueryAscends ==
    (addr' # addr) =>
        /\ addr' > addr
        /\ mbi'.RegionSize > 0
        /\ mbi'.BaseAddress >= mbi.BaseAddress + mbi.RegionSize

(* The walk ran out of regions and no attempt succeeded: nullptr is returned. *)
ExhaustedIsNotFound ==
    (pc = "done" /\ \A k \in 1 .. Len(attempts) : ~attempts[k].ok) => resultAddr = NULL

(* C15: every Scan call ends; each query reports a region above the one
   before, so no region is visited twice; and a walk that ends with no
   verified candidate returns nullptr. *)
C15_ScanTerminates ==
    /\ <>ScanEnded
    /\ [][QueryAscends]_vars
    /\ []ExhaustedIsNotFound

(* C15 witness: the walk went through every region, one of them with a
   failed attempt, the query failed at the end of the address space and Scan
   returned nullptr. *)
C15_Witness ==
    /\ pc = "done"
    /\ ~VirtualQueryOk(addr)
    /\ resultAddr = NULL
    /\ Len(attempts) > 0
    /\ Cardinality(scanned) = 2


-----------------------------------------------------------------------------
(* The errors of the Patch constructor *)

(* C16: a null target makes the constructor throw "Target is nullptr.", null
   bytes or bytes of length 0 make it throw one of the two "Patch Bytes"
   messages; whenever it throws, memory and protections are as before and no
   snapshot was allocated or captured. *)
C16_CtorErrors ==
    patchPc \notin { "none", "new" } =>
        /\ patchArgs.aTarget = NULL =>
               patchPc = "thrown" /\ patchHist.thrown = "Target is nullptr."
        /\ (patchArgs.aTarget # NULL /\ patchArgs.aBytesNull) =>
               patchPc = "thrown" /\ patchHist.thrown = "Patch Bytes are nullptr."
        /\ (patchArgs.aTarget # NULL /\ ~patchArgs.aBytesNull
                /\ Strlen(patchArgs.aBytes) = 0) =>
               patchPc = "thrown" /\ patchHist.thrown = "Patch Bytes are size 0."
        /\ patchPc = "thrown" =>
               /\ mem = patchHist.before
               /\ pageKind = patchHist.layout
               /\ OriginalBytes = << >>
               /\ patchHist.captured = << >>
               /\ patchHist.restored = << >>

(* C16 witness: the constructor threw for an empty byte string aimed at a
   committed, writable target. *)
C16_Witness ==
    /\ patchPc = "thrown"
    /\ patchHist.thrown = "Patch Bytes are size 0."
    /\ patchArgs.aBytes = << >>
    /\ VirtualProtectOk(pageKind, patchArgs.aTarget, 1)


(* The constructor returned without having captured a snapshot. *)
ApplyAbsorbed ==
    /\ patchPc \in { "live", "released", "heapfault", "crash" }
    /\ patchHist.captured = << >>

(* C17 (as stated): a Patch whose protection change failed at apply surfaces
   no error and stays inert: memory is never modified by it, and its release
   never copies to the target from the snapshot it does not have. *)
C17_AbsorbedFailureIsInert ==
    ApplyAbsorbed =>
        /\ patchHist.thrown = ""
        /\ mem = patchHist.before
        /\ patchHist.restored = << >>
        /\ patchPc # "crash"


(* C18 (as stated): whatever is done with a Patch, copies included, the
   snapshot is copied back at most once and deleted at most once. *)
C18_SnapshotReleasedOnce ==
    /\ patchHist.restores <= 1
    /\ patchHist.frees <= 1


-----------------------------------------------------------------------------
(* The constructor of Pattern from a C string: the pattern text compiler.  A text is the
   sequence of its character codes before the terminating 0. *)

CHAR_0   == 48
CHAR_9   == 57
CHAR_A   == 65
CHAR_F   == 70
HEXVAL_A == 10
HEXPOW_1 == 1
HEXPOW_2 == 16

CharCode == [space |-> 32, lt |-> 60, gt |-> 62, question |-> 63,
             colon |-> 58, G |-> 71, a |-> 97, f |-> 102]

(* aPattern[k], k counted from 0; aPattern[len] is the terminator *)
CharAt(aPattern, k) == IF k < Len(aPattern) THEN aPattern[k + 1] ELSE 0

IsDigitChar(c) == c >= CHAR_0 /\ c <= CHAR_9

IsUpperHexChar(c) == c >= CHAR_A /\ c <= CHAR_F

M_IsHexChar(c) ==
    IsDigitChar(c) \/ IsUpperHexChar(c) \/ (c >= CharCode.a /\ c <= CharCode.f)

(* the condition of "Match hex." *)
IsHexChar(c) == IsDigitChar(c) \/ IsUpperHexChar(c)

M_PairsWithNext(aPattern, k) == FALSE

(* the condition of "Match if double hex 'FF' instead of single hex 'F'":
   && binds tighter than ||, so the length test guards the digit case only *)
PairsWithNext(aPattern, k) ==
    \/ (k + 1 < Len(aPattern) /\ IsDigitChar(CharAt(aPattern, k + 1)))
    \/ IsUpperHexChar(CharAt(aPattern, k + 1))

(* the contribution of one hex character at the given power *)
HexPart(c, pow) ==
    IF c <= CHAR_9 THEN (c - CHAR_0) * pow
    ELSE ((c - CHAR_A) + HEXVAL_A) * pow

(* uint8_t val of one hex token starting at index k *)
HexVal(aPattern, k) ==
    IF PairsWithNext(aPattern, k)
    THEN (HexPart(CharAt(aPattern, k), HEXPOW_2)
            + HexPart(CharAt(aPattern, k + 1), HEXPOW_1)) % 256
    ELSE HexPart(CharAt(aPattern, k), HEXPOW_1) % 256

M_QuestionNext(aPattern, k) == k + 1

(* The index after a wildcard at index k: "Match if double wildcard '??'
   instead of single wildcard '?'" takes the second '?' into the token. *)
QuestionNext(aPattern, k) ==
    IF k + 1 < Len(aPattern) /\ CharAt(aPattern, k + 1) = CharCode.question
    THEN k + 2 ELSE k + 1

(* What one pass of the for loop does at index k: skip the character, write
   a token, or throw. *)
LoopPass(aPattern, k) ==
    LET c == CharAt(aPattern, k)
    IN  IF c = CharCode.space \/ c = CharCode.lt \/ c = CharCode.gt
        THEN [do |-> "skip", next |-> k + 1, byte |-> Wild]
        ELSE IF c = CharCode.question
        THEN [do |-> "write",
              next |-> QuestionNext(aPattern, k),
              byte |-> Wild]
        ELSE IF IsHexChar(c)
        THEN [do |-> "write",
              next |-> IF PairsWithNext(aPattern, k) THEN k + 2 ELSE k + 1,
              byte |-> Tok(HexVal(aPattern, k))]
        ELSE [do |-> "throw", next |-> k, byte |-> Wild]

M_AtCapacity(size) == size > MAX_PATTERN_LENGTH

(* "Pattern string not done, but already filled max byte length." *)
AtCapacity(size) == size >= MAX_PATTERN_LENGTH

(* The whole constructor as a function of a short text: the for loop from
   index k on, with the tokens written so far. *)
RECURSIVE CompileFrom(_, _, _)
CompileFrom(aPattern, k, bytes) ==
    IF k >= Len(aPattern) \/ AtCapacity(Len(bytes))
    THEN [thrown |-> "", Bytes |-> bytes]
    ELSE IF LoopPass(aPattern, k).do = "throw"
    THEN [thrown |-> "Invalid hexadecimal.", Bytes |-> << >>]
    ELSE CompileFrom(aPattern, LoopPass(aPattern, k).next,
                     IF LoopPass(aPattern, k).do = "write"
                     THEN Append(bytes, LoopPass(aPattern, k).byte) ELSE bytes)

Compile(aPattern) == CompileFrom(aPattern, 0, << >>)

MaxText == 3

TextAlphabet ==
    { CharCode.space, CharCode.lt, CharCode.gt, CharCode.question,
      CHAR_0, CHAR_9, CHAR_A, CHAR_F, CharCode.a, CharCode.G, CharCode.colon }

(* a text that fills the pattern: MAX_PATTERN_LENGTH times "FF" *)
FullText == [k \in 1 .. (2 * MAX_PATTERN_LENGTH) |-> CHAR_F]

(* the texts of the README's examples *)
ReadmeTexts ==
    { << 49, 65, 50, 66, 51, 67, 52 >>,
      << 49, 65, 50, 66, 51, 67, 52, 68 >>,
      << 49, 97, 32, 50, 98, 32, 51, 99, 32, 52, 100 >>,
      << 49, 65, 32, 50, 66, 32, 63, 63, 32, 52, 68 >>,
      << 49, 65, 32, 50, 66, 32, 63, 32, 32, 52, 68 >>,
      << 49, 65, 32, 50, 66, 32, 63, 63, 63, 32, 53, 69 >> }

Texts ==
    SeqsUpTo(TextAlphabet, MaxText)
       \cup ReadmeTexts
       \cup { FullText \o t : t \in SeqsUpTo(TextAlphabet, 1) }
       \cup { SubSeq(FullText, 1, 2 * MAX_PATTERN_LENGTH - 1) \o t :
                t \in SeqsUpTo(TextAlphabet, 1) }

CompileInputs == { [fn |-> "compile", aPattern |-> t] : t \in Texts }

(* The constructor running: the loop index i, the write index j, Size, the
   elements of Bytes up to the last one written, and where the constructor
   stands. *)
Constructing(k, bytes, at, thrown) ==
    [i |-> k, j |-> Len(bytes), Size |-> Len(bytes), Bytes |-> bytes, pc |-> at,
     thrown |-> thrown]

(* this->Bytes[j] = byte, on an array that Bytes() zero-initialised *)
WriteAt(bytes, j, byte) ==
    [k \in 1 .. (IF j + 1 > Len(bytes) THEN j + 1 ELSE Len(bytes)) |->
        IF k = j + 1 THEN byte
        ELSE IF k <= Len(bytes) THEN bytes[k] ELSE Tok(0)]

(* One pass of the for loop that skips a character or writes a token. *)
CompilePass ==
    /\ pureIn.fn = "compile"
    /\ pureOut[1].pc = "loop"
    /\ pureOut[1].i < Len(pureIn.aPattern)
    /\ ~AtCapacity(pureOut[1].Size)
    /\ LET pass == LoopPass(pureIn.aPattern, pureOut[1].i)
       IN  /\ pass.do # "throw"
           /\ pureOut' =
                << IF pass.do = "write"
                   THEN [pureOut[1] EXCEPT
                            !.i = pass.next,
                            !.Bytes = WriteAt(@, pureOut[1].j, pass.byte),
                            !.Size = @ + 1,
                            !.j = @ + 1]
                   ELSE [pureOut[1] EXCEPT !.i = pass.next] >>
    /\ UNCHANGED << pureIn, scanVars, fallbackVars, patchVars, cacheVars >>

(* The pass that meets a character of no class: throw "Invalid hexadecimal.",
   which leaves no object. *)
CompileThrow ==
    /\ pureIn.fn = "compile"
    /\ pureOut[1].pc = "loop"
    /\ pureOut[1].i < Len(pureIn.aPattern)
    /\ ~AtCapacity(pureOut[1].Size)
    /\ LoopPass(pureIn.aPattern, pureOut[1].i).do = "throw"
    /\ pureOut' = << [Constructing(pureOut[1].i, << >>, "thrown", "Invalid hexadecimal.")
                        EXCEPT !.j = pureOut[1].j, !.Size = pureOut[1].Size] >>
    /\ UNCHANGED << pureIn, scanVars, fallbackVars, patchVars, cacheVars >>

(* The loop ends: the text is used up, or Size reached MAX_PATTERN_LENGTH
   and the loop breaks. *)
CompileReturn ==
    /\ pureIn.fn = "compile"
    /\ pureOut[1].pc = "loop"
    /\ \/ pureOut[1].i >= Len(pureIn.aPattern)
       \/ AtCapacity(pureOut[1].Size)
    /\ pureOut' = << [pureOut[1] EXCEPT !.pc = "done"] >>
    /\ UNCHANGED << pureIn, scanVars, fallbackVars, patchVars, cacheVars >>

InitCompile ==
    /\ ScanIdle /\ NoFallback /\ NoPatch /\ NoCache
    /\ pureIn \in CompileInputs
    /\ pureOut = << Constructing(0, << >>, "loop", "") >>

NextCompile == CompilePass \/ CompileThrow \/ CompileReturn

SpecCompile == InitCompile /\ [][NextCompile]_vars

(* The grammar of the pattern text, stated on the text alone. *)
Skipped(c) == c \in { 32, 60, 62 }

Question(c) == c = 63

HexChars == << 48, 49, 50, 51, 52, 53, 54, 55, 56, 57, 65, 66, 67, 68, 69, 70 >>

Hex(c) == \E v \in 1 .. 16 : HexChars[v] = c

DigitValue(c) == (CHOOSE v \in 1 .. 16 : HexChars[v] = c) - 1

Permitted(c) == Skipped(c) \/ Question(c) \/ Hex(c)

(* the number of characters of the same class directly before position k *)
HexRunBefore(t, k) ==
    CHOOSE n \in 0 .. (k - 1) :
        /\ (n = k - 1 \/ ~Hex(t[k - n - 1]))
        /\ \A m \in (k - n) .. (k - 1) : Hex(t[m])

QuestionRunBefore(t, k) ==
    CHOOSE n \in 0 .. (k - 1) :
        /\ (n = k - 1 \/ ~Question(t[k - n - 1]))
        /\ \A m \in (k - n) .. (k - 1) : Question(t[m])

(* the positions where a token starts, pairing greedily from the left *)
TokenStarts(t) ==
    { k \in 1 .. Len(t) :
        \/ Hex(t[k]) /\ HexRunBefore(t, k) % 2 = 0
        \/ Question(t[k]) /\ QuestionRunBefore(t, k) % 2 = 0 }

(* the token a start position stands for *)
TokenAt(t, k) ==
    IF Question(t[k]) THEN Wild
    ELSE IF k < Len(t) /\ Hex(t[k + 1])
         THEN Tok(DigitValue(t[k]) * 16 + DigitValue(t[k + 1]))
         ELSE Tok(DigitValue(t[k]))

NotPermittedAt(t) == { k \in 1 .. Len(t) : ~Permitted(t[k]) }

FirstNotPermitted(t) == CHOOSE k \in NotPermittedAt(t) : \A m \in NotPermittedAt(t) : k <= m

TokensBefore(t, k) == Cardinality({ s \in TokenStarts(t) : s < k })

Compiled == pureIn.fn = "compile" /\ pureOut[1].pc \in { "done", "thrown" }

(* C19 (as stated): a text holding a character that is not permitted fails
   with the parse error and gives no Pattern, wherever the character is. *)
C19_NotPermittedAnywhereThrows ==
    (Compiled /\ NotPermittedAt(pureIn.aPattern) # {}) =>
        /\ pureOut[1].thrown = "Invalid hexadecimal."
        /\ pureOut[1].Bytes = << >>

(* C19 (amended): a text holding a character that is not permitted fails with
   the parse error and gives no Pattern when fewer than MAX_PATTERN_LENGTH
   tokens stand before the first such character; a text without one never
   fails. *)
C19_NotPermittedBeforeCapacityThrows ==
    Compiled =>
        LET t == pureIn.aPattern
        IN  /\ (NotPermittedAt(t) # {}
                  /\ TokensBefore(t, FirstNotPermitted(t)) < MAX_PATTERN_LENGTH)
                 => (pureOut[1].thrown = "Invalid hexadecimal." /\ pureOut[1].Bytes = << >>)
            /\ NotPermittedAt(t) = {} => pureOut[1].thrown = ""

(* C19 witness: a lowercase hex digit after a compiled token was rejected. *)
C19_Witness ==
    /\ Compiled
    /\ Len(pureIn.aPattern) = 3
    /\ pureIn.aPattern[1] = 70 /\ pureIn.aPattern[2] = 32 /\ pureIn.aPattern[3] = 97
    /\ pureOut[1].thrown = "Invalid hexadecimal."

(* C20: in an accepted text every hex token is the pair high*16+low of two
   adjacent hex digits, pairing greedily from the left, or the value of a
   single digit that no hex digit follows; "1A2B3C4" gives 1A 2B 3C 04. *)
C20_HexTokens ==
    (Compiled /\ pureOut[1].thrown = "") =>
        LET t == pureIn.aPattern
            S == TokenStarts(t)
            out == pureOut[1].Bytes
        IN  /\ \A s \in S :
                 LET rank == Cardinality({ x \in S : x <= s })
                 IN  rank <= MAX_PATTERN_LENGTH =>
                        (rank <= Len(out) /\ out[rank] = TokenAt(t, s))
            /\ Len(out) <= Cardinality(S)
            /\ t = << 49, 65, 50, 66, 51, 67, 52 >>
                 => out = << Tok(26), Tok(43), Tok(60), Tok(4) >>

(* C20 witness: the README's text of seven hex digits was compiled. *)
C20_Witness ==
    /\ Compiled
    /\ pureIn.aPattern = << 49, 65, 50, 66, 51, 67, 52 >>
    /\ Len(pureOut[1].Bytes) = 4
    /\ pureOut[1].Bytes[4] = Tok(4)


-----------------------------------------------------------------------------
(* Wildcards in the pattern text *)

(* the texts short enough to be compiled as a function *)
ShortText(t) == Len(t) <= 12

(* the text without the positions in S *)
Without(t, S) ==
    LET keep == { k \in 1 .. Len(t) : k \notin S }
    IN  [j \in 1 .. Cardinality(keep) |->
            t[CHOOSE k \in keep : Cardinality({ x \in keep : x <= k }) = j]]

(* the second '?' of every "??" *)
SecondQuestions(t) ==
    { k \in 1 .. Len(t) : Question(t[k]) /\ QuestionRunBefore(t, k) % 2 = 1 }

(* no three '?' stand in a row, so taking the second of a pair away leaves
   the neighbours of the first apart from every other '?' *)
QuestionRunsAtMostTwo(t) ==
    \A k \in 1 .. Len(t) : Question(t[k]) => QuestionRunBefore(t, k) <= 1

WildcardsOf(bytes) == Cardinality({ k \in 1 .. Len(bytes) : bytes[k].IsWildcard })

(* the number of '?' runs of odd length: each leaves one single '?' *)
OddQuestionRuns(t) ==
    Cardinality({ k \in 1 .. Len(t) :
                    /\ Question(t[k])
                    /\ (k = Len(t) \/ ~Question(t[k + 1]))
                    /\ QuestionRunBefore(t, k) % 2 = 0 })

QuestionsIn(t) == Cardinality({ k \in 1 .. Len(t) : Question(t[k]) })

(* C21: '?' and '??' each give exactly one wildcard token: an accepted text
   and the same text with every "??" written as "?" compile to Patterns that
   operator== finds equal ("1A 2B ?? 4D" and "1A 2B ? 4D" among them), and
   the runs of '?' give ceil(k/2) wildcards each ("???" gives two). *)
C21_WildcardTokens ==
    (Compiled /\ pureOut[1].thrown = "" /\ ShortText(pureIn.aPattern)) =>
        LET t == pureIn.aPattern
            out == pureOut[1].Bytes
        IN  /\ QuestionRunsAtMostTwo(t) =>
                 /\ Compile(Without(t, SecondQuestions(t))).thrown = ""
                 /\ PatternEqPattern(out, Compile(Without(t, SecondQuestions(t))).Bytes)
            /\ 2 * WildcardsOf(out) = QuestionsIn(t) + OddQuestionRuns(t)
            /\ t = << 63, 63, 63 >> => out = << Wild, Wild >>
            /\ t = << 49, 65, 32, 50, 66, 32, 63, 63, 32, 52, 68 >>
                 => /\ Without(t, SecondQuestions(t))
                         = << 49, 65, 32, 50, 66, 32, 63, 32, 52, 68 >>
                    /\ PatternEqPattern(out,
                          Compile(<< 49, 65, 32, 50, 66, 32, 63, 32, 32, 52, 68 >>).Bytes)

(* C21 witness: the README's text with "??" was compiled to four tokens, the
   third a wildcard. *)
C21_Witness ==
    /\ Compiled
    /\ pureIn.aPattern = << 49, 65, 32, 50, 66, 32, 63, 63, 32, 52, 68 >>
    /\ pureOut[1].Bytes = << Tok(26), Tok(43), Wild, Tok(77) >>


-----------------------------------------------------------------------------
(* The capacity of a Pattern *)

(* C22: while a text is compiled and after it, Size never exceeds
   MAX_PATTERN_LENGTH and every write went to the index Size held before it
   (so j = Size and no element at or above Size was written); once Size is
   MAX_PATTERN_LENGTH the loop stops, and what is left of the text is not
   parsed: the Pattern is that of the text up to there, whatever follows. *)
C22_SizeWithinCapacity ==
    pureIn.fn = "compile" =>
        LET t == pureIn.aPattern
            o == pureOut[1]
        IN  /\ o.Size <= MAX_PATTERN_LENGTH
            /\ o.j = o.Size
            /\ o.pc # "thrown" => Len(o.Bytes) = o.Size
            /\ (o.pc = "done" /\ o.i < Len(t)) =>
                 /\ o.Size = MAX_PATTERN_LENGTH
                 /\ o.thrown = ""
                 /\ Cardinality(TokenStarts(SubSeq(t, 1, o.i))) = MAX_PATTERN_LENGTH
                 /\ \A k \in 1 .. (o.Size - 1) : o.Bytes[k] = Tok(255)
                 /\ o.Bytes[o.Size] \in { Tok(255), Tok(15) }

(* C22 witness: the loop broke at capacity with a character left that the
   compiler would have rejected. *)
C22_Witness ==
    /\ pureIn.fn = "compile"
    /\ pureOut[1].pc = "done"
    /\ pureOut[1].Size = MAX_PATTERN_LENGTH
    /\ pureOut[1].i + 1 = Len(pureIn.aPattern)
    /\ pureIn.aPattern[Len(pureIn.aPattern)] = 97


-----------------------------------------------------------------------------
(* Spaces and the markers '<' and '>' *)

Markers(t) == { k \in 1 .. Len(t) : t[k] \in { 60, 62 } }

(* C23 (as stated): a space, '<' or '>' gives no token and no parse error
   wherever it stands, and a text compiles to the same Pattern as the text
   with every '<' and '>' taken out. *)
C23_MarkersRemovable ==
    (Compiled /\ ShortText(pureIn.aPattern)) =>
        LET t == pureIn.aPattern
            plain == Compile(Without(t, Markers(t)))
        IN  /\ (\A k \in 1 .. Len(t) : Skipped(t[k]))
                 => (pureOut[1].thrown = "" /\ pureOut[1].Bytes = << >>)
            /\ pureOut[1].thrown = plain.thrown
            /\ PatternEqPattern(pureOut[1].Bytes, plain.Bytes)


-----------------------------------------------------------------------------
(* Two calls of Scan on one object in a build with ENABLE_PATTERN_CACHING:
   the first walks from the start with the store empty, the second starts
   where the store says. *)

(* The caller takes the result of the first call and calls Scan again. *)
ScanAgain ==
    /\ CachingEnabled
    /\ pc = "done"
    /\ threads[1].results = << >>
    /\ threads' = << [results |-> << resultAddr >>, tested |-> tested,
                      attempts |-> attempts] >>
    /\ pc' = "enter"
    /\ addr' = 0
    /\ mbi' = [BaseAddress |-> 0, RegionSize |-> 0, State |-> 0, Protect |-> 0]
    /\ base' = 0 /\ end' = 0 /\ i' = 0
    /\ resultAddr' = NULL
    /\ instructionsFailed' = 0
    /\ addrStore' = << >>
    /\ offsetFromMatch' = 0
    /\ ip' = 1
    /\ tested' = {} /\ scanned' = {} /\ attempts' = << >> /\ opLog' = << >>
    /\ UNCHANGED << inputVars, pureVars, fallbackVars, patchVars,
                    s_PatternMatchStore, s_PatternMatchMutex, firstWriter >>

ResumeImages ==
    { [a \in Mapped |-> IF a \in M THEN 1 ELSE 0] :
        M \in { {}, { PageSize }, { PageSize + 1 }, { 2 * PageSize },
                  { PageSize, 2 * PageSize + 1 } } }

ResumePrograms ==
    { << >>,
      << CmpI8(1) >>,
      << Offset(1), CmpI8(1) >>,
      << PushAddr, Offset(1), PopAddr, CmpI8(1) >>,
      << AdvWcard(1), CmpI8(1) >>,
      << Follow >>,
      << Strcmp(<< 1 >>) >>,
      << Wcscmp(<< 1 >>) >> }

InitResume ==
    /\ mem \in ResumeImages
    /\ pageKind \in LayoutsOf({KindER, KindERW, KindRES})
    /\ Assembly \in { << Tok(1) >>, << Tok(0) >>, << Tok(0), Wild >> }
    /\ Instructions \in ResumePrograms
    /\ modInfo = NoModule
    /\ ScanStart
    /\ NoPure
    /\ NoFallback
    /\ NoPatch
    /\ s_PatternMatchStore = << >> /\ s_PatternMatchMutex = 0 /\ firstWriter = << >>
    /\ threads = << [results |-> << >>, tested |-> {}, attempts |-> << >>] >>

NextResume == Next \/ ScanAgain

SpecResume == InitResume /\ [][NextResume]_vars

(* the second call has returned *)
Rescanned == CachingEnabled /\ pc = "done" /\ threads[1].results # << >>

(* the verification attempts of a call: where each started and how it ended *)
Verified(log) == [k \in 1 .. Len(log) |-> [start |-> log[k].start, ok |-> log[k].ok,
                                           final |-> log[k].final]]

(* C24: over an unchanged image the call that starts its walk at the stored
   raw match returns what the call from the start with the empty store
   returned, after the same verification attempts, and tests every address
   from the stored one on that the first call tested: no region after the
   stored one is skipped. *)
C24_ResumedScanSameResult ==
    Rescanned =>
        /\ resultAddr = threads[1].results[1]
        /\ Verified(attempts) = Verified(threads[1].attempts)
        /\ s_PatternMatchStore # << >> =>
             \A a \in threads[1].tested :
                 a >= s_PatternMatchStore[1].Address => a \in tested

(* C24 witness: the stored address is not the start of its region, the
   attempt there failed in both calls, and both went on to a later match. *)
C24_Witness ==
    /\ Rescanned
    /\ s_PatternMatchStore # << >>
    /\ s_PatternMatchStore[1].Address % PageSize # 0
    /\ Len(attempts) >= 2
    /\ ~attempts[1].ok
    /\ attempts[1].start = s_PatternMatchStore[1].Address
    /\ resultAddr # NULL


-----------------------------------------------------------------------------
(* The offsets the byte loop tests *)

(* C25 (as stated): when the byte loop of an accepted region has run out of
   offsets, every address of the region where the whole pattern fits has
   been tested, the one where the pattern ends at the last byte of the
   region included. *)
C25_EveryFittingOffsetTested ==
    (pc = "for" /\ ~InByteLoop(i, end)) => FitsIn(mbi, Assembly) \subseteq tested


-----------------------------------------------------------------------------
(* Verification attempts: comparisons that pass and fail, followed and
   preceded by the instructions that move the cursor *)

(* the relative address that leads from PageSize back to PageSize *)
SelfRel == AddrSpace - 4

VerifyImages ==
    { [a \in Mapped |-> 0],
      [a \in Mapped |-> IF a = PageSize THEN SelfRel ELSE 0],
      [a \in Mapped |-> IF a = PageSize THEN 1 ELSE 0],
      [a \in Mapped |-> IF a = PageSize + 1 THEN 1 ELSE 0],
      [a \in Mapped |-> IF a = PageSize + 2 THEN 1 ELSE 0],
      [a \in Mapped |-> IF a = PageSize THEN SelfRel + 1
                        ELSE IF a = PageSize + 1 THEN 1 ELSE 0] }

VerifyPrograms ==
    { << CmpI8(1), Follow >>,
      << CmpI16(1), Offset(1) >>,
      << CmpI32(1), PushAddr >>,
      << PushAddr, CmpI64(1), PopAddr >>,
      << Strcmp(<< SelfRel >>), AdvWcard(1) >>,
      << Strcmp(<< 1 >>), Follow >>,
      << Wcscmp(<< SelfRel >>), Offset(1) >>,
      << Wcscmp(<< 1 >>), Follow >>,
      << PushAddr, Offset(1), CmpI8(1) >>,
      << AdvWcard(1), CmpI8(1) >>,
      << PushAddr, Offset(1), PopAddr, CmpI8(1) >>,
      << Offset(0 - 1), AdvWcard(1) >>,
      << Offset(2), AdvWcard(1) >> }

InitVerify ==
    /\ mem \in VerifyImages
    /\ pageKind = AllExecuteRead
    /\ Assembly \in { << Wild >>, << Wild, Tok(0) >> }
    /\ Instructions \in VerifyPrograms
    /\ modInfo = NoModule
    /\ ScanStart
    /\ NoPure
    /\ NoFallback
    /\ NoCache
    /\ NoPatch

SpecVerify == InitVerify /\ [][Next]_vars

Comparisons == { "strcmp", "wcscmp", "cmpi8", "cmpi16", "cmpi32", "cmpi64" }

(* C26: a failed comparison ends the instruction sequence of the attempt at
   once: no instruction is ever about to run with a failure counted, and
   after a failure the instructions executed for the candidate are exactly
   those up to the failing comparison, which is the last one. *)
C26_FailureStopsAttempt ==
    /\ pc = "instr" => instructionsFailed = 0
    /\ instructionsFailed # 0 =>
         /\ Len(opLog) = ip
         /\ ip <= Len(Instructions)
         /\ opLog[ip].op = Instructions[ip].Operation
         /\ opLog[ip].op \in Comparisons
         /\ \A k \in 1 .. Len(opLog) : ~opLog[k].fault

(* C26 witness: a comparison failed with a Follow behind it, which was not
   executed: the byte loop went on. *)
C26_Witness ==
    /\ pc = "for"
    /\ instructionsFailed # 0
    /\ Len(Instructions) = 2
    /\ ip = 1
    /\ Instructions[2].Operation = "follow"
    /\ Len(opLog) = 1


(* C27: every verification attempt starts with the cursor at the raw match
   address, an empty address stack, no failure counted and the wildcard
   offset tracker at 0, whatever the failed attempts before it pushed or
   offset. *)
C27_AttemptStartsFresh ==
    (pc = "instr" /\ ip = 1) =>
        /\ resultAddr = base + i
        /\ PatternEqBytes(mem, Assembly, base + i)
        /\ addrStore = << >>
        /\ instructionsFailed = 0
        /\ offsetFromMatch = 0
        /\ opLog = << >>

(* C27 witness: an attempt starts after an attempt that pushed an address
   and moved the cursor and the tracker before its comparison failed. *)
C27_Witness ==
    /\ pc = "instr" /\ ip = 1
    /\ Instructions = << PushAddr, Offset(1), CmpI8(1) >>
    /\ attempts # << >>
    /\ ~attempts[Len(attempts)].ok
    /\ attempts[Len(attempts)].start = base + i - 1
    /\ addrStore = << >>


(* the instruction about to run *)
Running(ops) == pc = "instr" /\ ip <= Len(Instructions) /\ Instructions[ip].Operation \in ops

(* what the instruction that ran left in the cursor, before the failure
   check of the loop *)
CursorLeft == opLog'[Len(opLog')].after

(* C28: a comparison leaves the cursor and the address stack as they were,
   passing or failing; PushAddr leaves the cursor as it was; so only
   Offset, Follow, AdvWcard and PopAddr change the cursor. *)
C28_ComparisonsKeepCursor ==
    [][ /\ (Running(Comparisons) /\ pc' # "crash") =>
             /\ CursorLeft = resultAddr
             /\ addrStore' = addrStore
             /\ offsetFromMatch' = offsetFromMatch
             /\ instructionsFailed' = 0 => resultAddr' = resultAddr
        /\ Running({ "pushaddr" }) =>
             /\ CursorLeft = resultAddr
             /\ resultAddr' = resultAddr
             /\ addrStore' = Append(addrStore, resultAddr)
        /\ (pc = "instr" /\ pc' = "instr" /\ resultAddr' # resultAddr) =>
             Running({ "offset", "follow", "advwcard", "popaddr" })
      ]_vars

(* C28 witness: a Strcmp passed on the string its relative address leads to
   and left the cursor on the match, with the next instruction to run. *)
C28_Witness ==
    /\ pc = "instr" /\ ip = 2
    /\ opLog[1].op = "strcmp"
    /\ instructionsFailed = 0
    /\ resultAddr = base + i
    /\ FollowRelativeAddress(mem, resultAddr) = resultAddr + 1

-----------------------------------------------------------------------------
(* Patch objects constructed and destroyed by several threads.  Neither the
   constructor nor the destructor takes a lock, so each call is made of the
   steps the code performs one after another: the argument checks, the
   VirtualProtect that makes the range writable, the memcpy calls, and the
   VirtualProtect that puts oldProtect back. *)

PatcherIds == 1 .. Len(patchers)

Patcher(t, b) ==
    [pc |-> "new", aTarget |-> t, aBytes |-> b, Target |-> NULL, Size |-> 0,
     OriginalBytes |-> << >>, oldProtect |-> 0, began |-> 0, ended |-> 0]

(* A write to address a succeeds iff its page is committed and writable. *)
Writable(pk, a) ==
    /\ a \in Mapped
    /\ pk[a \div PageSize].State = MEM_COMMIT
    /\ pk[a \div PageSize].Protect \in { PAGE_READWRITE, PAGE_EXECUTE_READWRITE }

RangeWritable(pk, a, n) == \A k \in 0 .. (n - 1) : Writable(pk, a + k)

(* An access violation in one thread ends the process. *)
ProcessAlive == \A k \in PatcherIds : patchers[k].pc \notin { "crash", "heapfault" }

PatchersAside ==
    /\ UNCHANGED << Assembly, Instructions, modInfo, pc, walkVars, i, attemptVars,
                    tested, scanned, attempts >>
    /\ UNCHANGED << patchArgs, Target, OriginalBytes, PatchSize, patchPc, patchObjects,
                    patchHist >>
    /\ UNCHANGED << pureVars, fallbackVars, cacheVars >>

(* The constructor up to its VirtualProtect: the three checks, Target, Size. *)
PatcherEnter ==
    /\ ProcessAlive
    /\ \E k \in PatcherIds :
         LET me == patchers[k]
             n == Strlen(me.aBytes)
         IN  /\ me.pc = "new"
             /\ patchers' = [patchers EXCEPT ![k] =
                    IF CtorThrows(me.aTarget, FALSE, n) # ""
                    THEN [me EXCEPT !.pc = "thrown"]
                    ELSE [me EXCEPT !.pc = "entered", !.Target = me.aTarget, !.Size = n,
                                    !.began = OldProtect(pageKind, me.aTarget)]]
    /\ UNCHANGED << mem, pageKind >>
    /\ PatchersAside

(* VirtualProtect(aTarget, Size, PAGE_EXECUTE_READWRITE, &oldProtect) of the
   constructor. *)
CtorProtect ==
    /\ ProcessAlive
    /\ \E k \in PatcherIds :
         LET me == patchers[k]
         IN  /\ me.pc = "entered"
             /\ IF VirtualProtectOk(pageKind, me.Target, me.Size)
                THEN /\ pageKind' = VirtualProtect(pageKind, me.Target, me.Size,
                                                   PAGE_EXECUTE_READWRITE)
                     /\ patchers' = [patchers EXCEPT ![k] =
                            [me EXCEPT !.pc = "writable",
                                       !.oldProtect = OldProtect(pageKind, me.Target)]]
                ELSE /\ patchers' = [patchers EXCEPT ![k] =
                            [me EXCEPT !.pc = "live",
                                       !.ended = OldProtect(pageKind, me.Target)]]
                     /\ UNCHANGED pageKind
    /\ UNCHANGED mem
    /\ PatchersAside

(* new uint8_t[Size] and the two memcpy calls of the constructor; the write
   faults when the range is no longer writable. *)
CtorCopy ==
    /\ ProcessAlive
    /\ \E k \in PatcherIds :
         LET me == patchers[k]
             c  == PatchCapture(mem, me.Target, me.aBytes, me.Size)
         IN  /\ me.pc = "writable"
             /\ IF RangeWritable(pageKind, me.Target, me.Size)
                THEN /\ mem' = c.mem
                     /\ patchers' = [patchers EXCEPT ![k] =
                            [me EXCEPT !.pc = "written", !.OriginalBytes = c.OriginalBytes]]
                ELSE /\ patchers' = [patchers EXCEPT ![k] = [me EXCEPT !.pc = "crash"]]
                     /\ UNCHANGED mem
    /\ UNCHANGED pageKind
    /\ PatchersAside

(* VirtualProtect(aTarget, Size, oldProtect, &oldProtect) of the constructor. *)
CtorRestore ==
    /\ ProcessAlive
    /\ \E k \in PatcherIds :
         LET me == patchers[k]
         IN  /\ me.pc = "written"
             /\ pageKind' = VirtualProtect(pageKind, me.Target, me.Size, me.oldProtect)
             /\ patchers' = [patchers EXCEPT ![k] =
                    [me EXCEPT !.pc = "live", !.ended = OldProtect(pageKind', me.Target)]]
    /\ UNCHANGED mem
    /\ PatchersAside

(* VirtualProtect(Target, Size, PAGE_EXECUTE_READWRITE, &oldProtect) of the
   destructor, its first statement. *)
DtorProtect ==
    /\ ProcessAlive
    /\ \E k \in PatcherIds :
         LET me == patchers[k]
         IN  /\ me.pc = "live"
             /\ IF VirtualProtectOk(pageKind, me.Target, me.Size)
                THEN /\ pageKind' = VirtualProtect(pageKind, me.Target, me.Size,
                                                   PAGE_EXECUTE_READWRITE)
                     /\ patchers' = [patchers EXCEPT ![k] =
                            [me EXCEPT !.pc = "rewritable",
                                       !.began = OldProtect(pageKind, me.Target),
                                       !.oldProtect = OldProtect(pageKind, me.Target)]]
                ELSE /\ \E outcome \in DeleteOutcomes(me.OriginalBytes) :
                          patchers' = [patchers EXCEPT ![k] =
                            [me EXCEPT !.pc = outcome,
                                       !.began = OldProtect(pageKind, me.Target),
                                       !.ended = OldProtect(pageKind, me.Target)]]
                     /\ UNCHANGED pageKind
    /\ UNCHANGED mem
    /\ PatchersAside

(* memcpy(Target, OriginalBytes, Size) of the destructor. *)
DtorCopy ==
    /\ ProcessAlive
    /\ \E k \in PatcherIds :
         LET me == patchers[k]
         IN  /\ me.pc = "rewritable"
             /\ IF RangeWritable(pageKind, me.Target, me.Size) /\ me.OriginalBytes # << >>
                THEN /\ mem' = CopyIn(mem, me.Target, me.OriginalBytes, me.Size)
                     /\ patchers' = [patchers EXCEPT ![k] = [me EXCEPT !.pc = "rewritten"]]
                ELSE /\ patchers' = [patchers EXCEPT ![k] = [me EXCEPT !.pc = "crash"]]
                     /\ UNCHANGED mem
    /\ UNCHANGED pageKind
    /\ PatchersAside

(* VirtualProtect(Target, Size, oldProtect, &oldProtect) and
   delete this->OriginalBytes of the destructor. *)
DtorRestore ==
    /\ ProcessAlive
    /\ \E k \in PatcherIds :
         LET me == patchers[k]
         IN  /\ me.pc = "rewritten"
             /\ pageKind' = VirtualProtect(pageKind, me.Target, me.Size, me.oldProtect)
             /\ \E outcome \in DeleteOutcomes(me.OriginalBytes) :
                  patchers' = [patchers EXCEPT ![k] =
                    [me EXCEPT !.pc = outcome, !.ended = OldProtect(pageKind', me.Target)]]
    /\ UNCHANGED mem
    /\ PatchersAside

(* Every thread patches bytes of page 1, which is committed and read-only or
   execute-read. *)
PatcherTargets == PageSize .. (2 * PageSize - 1)

InitPatchers ==
    /\ mem = [a \in Mapped |-> 0]
    /\ \E k \in { KindRO, KindER } :
         pageKind = [p \in Pages |-> IF p = 1 THEN k ELSE FreePage]
    /\ Assembly = << >>
    /\ Instructions = << >>
    /\ modInfo = NoModule
    /\ pc = "idle"
    /\ addr = 0
    /\ mbi = [BaseAddress |-> 0, RegionSize |-> 0, State |-> 0, Protect |-> 0]
    /\ base = 0 /\ end = 0 /\ i = 0
    /\ resultAddr = NULL
    /\ instructionsFailed = 0
    /\ addrStore = << >>
    /\ offsetFromMatch = 0
    /\ ip = 1
    /\ tested = {} /\ scanned = {} /\ attempts = << >> /\ opLog = << >>
    /\ patchArgs = [aTarget |-> NULL, aBytesNull |-> TRUE, aBytes |-> << >>]
    /\ Target = NULL /\ OriginalBytes = << >> /\ PatchSize = 0
    /\ patchPc = "none"
    /\ patchObjects = 0
    /\ patchers \in [1 .. NumThreads -> { Patcher(t, << 2 >>) : t \in PatcherTargets }]
    /\ patchHist = [before |-> << >>, layout |-> << >>, captured |-> << >>,
                    restored |-> << >>, thrown |-> "", copies |-> 0,
                    restores |-> 0, frees |-> 0]
    /\ NoPure
    /\ NoFallback
    /\ NoCache

NextPatchers ==
    \/ PatcherEnter
    \/ CtorProtect
    \/ CtorCopy
    \/ CtorRestore
    \/ DtorProtect
    \/ DtorCopy
    \/ DtorRestore

SpecPatchers == InitPatchers /\ [][NextPatchers]_vars

(* The steps between the VirtualProtect that opens a range and the one that
   closes it. *)
InCriticalSection == { "writable", "written", "rewritable", "rewritten" }

(* C29: the protection change, the copy and the protection restore of an apply
   or a release run as one critical section: no two Patch operations are
   between their first and their last VirtualProtect at once, and after each
   apply or release the protection of the range is the one it had when that
   operation began. *)
C29_PatchCriticalSection ==
    /\ Cardinality({ k \in PatcherIds : patchers[k].pc \in InCriticalSection }) <= 1
    /\ \A k \in PatcherIds :
         patchers[k].pc \in { "live", "released" } => patchers[k].ended = patchers[k].began

(* The constructor made the range writable and copied, and no destructor has
   run since: the state an apply that succeeded leaves. *)
Applied == patchPc = "live" /\ OriginalBytes # << >> /\ patchHist.frees = 0

(* C30: after a successful apply with the byte sequence aBytes of length len,
   whatever the byte values (0x00 included), the bytes of [Target, Target + len)
   are aBytes, the snapshot holds exactly the len bytes that were there
   before, and every byte outside the range is as it was. *)
C30_ApplyWritesAllBytes ==
    Applied =>
        LET b   == patchArgs.aBytes
            len == Len(b)
        IN  /\ \A k \in 1 .. len :
                 /\ Target + k - 1 \in Mapped
                 /\ mem[Target + k - 1] = b[k]
            /\ Len(OriginalBytes) = len
            /\ \A k \in 1 .. len : OriginalBytes[k] = patchHist.before[Target + k - 1]
            /\ \A a \in Mapped :
                 (a < Target \/ a >= Target + len) => mem[a] = patchHist.before[a]

-----------------------------------------------------------------------------
(* DataScan::Scan, the module-bounded scan.  Its byte loop, its attempt and
   its instructions other than follow are those of PatternScan::Scan; the walk
   starts at the base of the main module and checks the query address against
   the module, and every readable region is accepted. *)

ModuleEnd(mi) == mi.lpBaseOfDll + mi.SizeOfImage

(* The pages of a region belong to one allocation and the image of a module is
   one allocation: a region that starts inside the module ends with it. *)
QueryInModule(pk, a, mi) ==
    LET q == VirtualQuery(pk, a)
    IN  IF /\ q.BaseAddress >= mi.lpBaseOfDll
           /\ q.BaseAddress < ModuleEnd(mi)
           /\ q.BaseAddress + q.RegionSize > ModuleEnd(mi)
        THEN [q EXCEPT !.RegionSize = ModuleEnd(mi) - q.BaseAddress]
        ELSE q

(* addr >= modInfo.lpBaseOfDll && addr <= (PBYTE)modInfo.lpBaseOfDll + modInfo.SizeOfImage *)
AddrInModule(a, mi) == a >= mi.lpBaseOfDll /\ a <= ModuleEnd(mi)

(* (mbi.Protect & flag) == flag, for a flag of one bit *)
HasFlag(v, flag) == (v \div flag) % 2 = 1

(* The three checks of DataScan: size, MEM_COMMIT, one of the four readable
   protections. *)
DataRegionAccepted(p, q) ==
    /\ ~(Size(p) > q.RegionSize)
    /\ ~(q.State # MEM_COMMIT)
    /\ \/ HasFlag(q.Protect, PAGE_READONLY)
       \/ HasFlag(q.Protect, PAGE_READWRITE)
       \/ HasFlag(q.Protect, PAGE_EXECUTE_READ)
       \/ HasFlag(q.Protect, PAGE_EXECUTE_READWRITE)

(* if (this->Assembly.Size == 0) { return nullptr; }  GetModuleInformation;
   PBYTE addr = (PBYTE)modInfo.lpBaseOfDll; *)
DataEnter ==
    /\ pc = "enter"
    /\ pc' = IF Size(Assembly) = 0 THEN "done" ELSE "while"
    /\ addr' = IF Size(Assembly) # 0 THEN modInfo.lpBaseOfDll ELSE addr
    /\ UNCHANGED << inputVars, mbi, base, end, i, attemptVars, tested, scanned, attempts >>
    /\ UNCHANGED otherVars

(* One turn of the while loop up to the byte loop: VirtualQuery, the check of
   the query address against the module, the advance, the checks of the region. *)
DataQuery ==
    /\ pc = "while"
    /\ WalkContinues(resultAddr)
    /\ VirtualQueryOk(addr)
    /\ AddrInModule(addr, modInfo)
    /\ LET q == QueryInModule(pageKind, addr, modInfo)
       IN  /\ mbi' = q
           /\ addr' = NextQueryAddr(addr, q)
           /\ IF DataRegionAccepted(Assembly, q)
              THEN /\ base' = q.BaseAddress
                   /\ end' = ByteLoopEnd(q, Assembly)
                   /\ i' = 0
                   /\ pc' = "for"
                   /\ scanned' = scanned \cup {q.BaseAddress}
              ELSE /\ pc' = "while"
                   /\ UNCHANGED << base, end, i, scanned >>
    /\ UNCHANGED << inputVars, attemptVars, tested, attempts >>
    /\ UNCHANGED otherVars

(* The while loop ends: a result is set, VirtualQuery failed, or the query
   address is outside the module.  return resultAddr. *)
DataReturn ==
    /\ pc = "while"
    /\ \/ ~WalkContinues(resultAddr)
       \/ ~VirtualQueryOk(addr)
       \/ ~AddrInModule(addr, modInfo)
    /\ pc' = "done"
    /\ UNCHANGED << inputVars, walkVars, i, attemptVars, tested, scanned, attempts >>
    /\ UNCHANGED otherVars

(* DataScan's follow reads the relative address at resultAddr + inst.Value. *)
FollowAt(v) == Inst("follow", v, << >>, << >>)

ExecDataFollow(m, pk, st, inst) ==
    IF ~RangeReadable(pk, Wrap(st.resultAddr + inst.Value), 4) THEN Faulted(st)
    ELSE [st EXCEPT !.resultAddr = FollowRelativeAddress(m, Wrap(st.resultAddr + inst.Value))]

OpDataFollow ==
    /\ AtOp({ "follow" })
    /\ Commit(ExecDataFollow(mem, pageKind, Cur, Instructions[ip]))

NextData ==
    \/ DataEnter
    \/ DataQuery
    \/ DataReturn
    \/ ScanByte
    \/ ScanRegionDone
    \/ OpOffset
    \/ OpDataFollow
    \/ OpStrcmp
    \/ OpWcscmp
    \/ OpCmpI
    \/ OpPushAddr
    \/ OpPopAddr
    \/ AttemptDone

DataPrograms ==
    { << >>,
      << CmpI8(1) >>,
      << Offset(1), CmpI16(1) >>,
      << PushAddr, Offset(1), PopAddr >>,
      << FollowAt(0) >>,
      << FollowAt(1) >>,
      << Strcmp(<< 1 >>) >>,
      << Wcscmp(<< 1 >>) >> }

(* The main module starts at page 1 and ends before the last page; what lies
   behind it is any kind of page. *)
Modules ==
    { [lpBaseOfDll |-> PageSize, SizeOfImage |-> n * PageSize] : n \in 1 .. (NumPages - 1) }

InitData ==
    /\ mem \in Images
    /\ pageKind \in LayoutsOf({KindER, KindRO, KindRES})
    /\ Assembly \in { << >>, << Tok(1) >>, << Tok(0) >>, << Tok(0), Wild >> }
    /\ Instructions \in DataPrograms
    /\ modInfo \in Modules
    /\ ScanStart
    /\ NoPure
    /\ NoFallback
    /\ NoCache
    /\ NoPatch

SpecData == InitData /\ [][NextData]_vars

InModule(a) == a >= modInfo.lpBaseOfDll /\ a < ModuleEnd(modInfo)

(* C31: the module-bounded scan starts at the module base and tests no
   candidate address outside [lpBaseOfDll, lpBaseOfDll + SizeOfImage): every
   tested address, and with it every raw match, lies in the module. *)
C31_TestedInsideModule ==
    /\ (pc = "while" /\ mbi.RegionSize = 0) => addr = modInfo.lpBaseOfDll
    /\ \A a \in tested : InModule(a)

-----------------------------------------------------------------------------
(* The index advwcard reads the token array with *)

InTokenArray(k) == k >= 0 /\ k < MAX_PATTERN_LENGTH

(* C32: AdvWcard reads the tokens only at indices of the array: whenever it
   runs, whatever instructions ran before it, offsetFromMatch is in
   [0, MAX_PATTERN_LENGTH) and no read is undefined; and when fewer wildcard
   runs follow than it is asked to advance, the cursor ends at match start +
   Size. *)
C32_AdvWcardInsideArray ==
    [][ Running({ "advwcard" }) =>
            /\ InTokenArray(offsetFromMatch)
            /\ ~opLog'[Len(opLog')].ub
            /\ Cardinality(RunsAfter(Assembly, offsetFromMatch)) < Instructions[ip].Value =>
                   /\ offsetFromMatch' = Size(Assembly)
                   /\ CursorLeft = Wrap(base + i + Size(Assembly))
      ]_vars

====
